---- MODULE Spec2Model ----
(***************************************************************************)
(* Flamework components: the qualification tracker (ComponentTracker) and  *)
(* the component registry (Components).  Every handler is one atomic       *)
(* action; a handler's nested and re-entrant calls (listeners, dependency  *)
(* resolution during construction, eager creation) are computed by the     *)
(* recursive operators below, which thread a record `s` of the whole       *)
(* program state through the calls in the order the code makes them.       *)
(* A thrown error is the field s.err: every operation passes a state that  *)
(* carries an error through unchanged, which is how the error unwinds the  *)
(* callers up to the handler (or to the next xpcall).                      *)
(***************************************************************************)
EXTENDS Integers, Sequences, FiniteSets, TLC

VARIABLES
    tags,                       \* CollectionService: entity -> set of tags
    shape,                      \* entity -> does its instance tree pass the instance guard
    place,                      \* entity -> where the instance is parented
    attrs,                      \* entity -> attribute name -> value
    activeComponents,           \* Components.activeComponents
    activeInheritedComponents,  \* Components.activeInheritedComponents
    reverseComponentsMapping,   \* Components.reverseComponentsMapping
    componentWaiters,           \* Components.componentWaiters
    promises,                   \* the promises waitForComponent has returned
    instances,                  \* ComponentTracker.instances, one map per tracker
    orphans,                    \* InstanceTracker objects no longer in `instances` that a
                                \* pending timer, deferred task or connection still holds
    followOrphans,              \* whether the model follows those objects: they have no
                                \* listener left, so they act on nothing but themselves
                                \* and the warning output
    comps,                      \* the latest BaseComponent object of each (entity, class)
    started                     \* whether Components.onStart has run

vars == <<tags, shape, place, attrs, activeComponents, activeInheritedComponents,
          reverseComponentsMapping, componentWaiters, promises, instances, orphans,
          followOrphans, comps, started>>

----------------------------------------------------------------------------
(* Bounds of the model *)

\* a BaseComponent object is identified by its entity, its class and a generation
\* that advances, modulo Generations, at every allocation for that entity and class
Generations == 2

\* how many untracked InstanceTracker objects may still be held at once
MaxOrphans == 1

----------------------------------------------------------------------------
(* Maps (Lua tables): functions on the set of keys that are present *)

EmptyMap == <<>>
Has(m, k) == k \in DOMAIN m
Put(m, k, v) == [x \in (DOMAIN m) \cup {k} |-> IF x = k THEN v ELSE m[x]]
Del(m, k) == [x \in (DOMAIN m) \ {k} |-> m[x]]
Get(m, k, dflt) == IF k \in DOMAIN m THEN m[k] ELSE dflt

RECURSIVE SetToSeq(_)
SetToSeq(S) ==
    IF S = {} THEN <<>>
    ELSE LET x == CHOOSE y \in S : TRUE IN <<x>> \o SetToSeq(S \ {x})

RECURSIVE Count(_, _)
\* how many entries of a log satisfy a test given as the set of matching entries
Count(log, S) ==
    IF log = <<>> THEN 0
    ELSE (IF Head(log) \in S THEN 1 ELSE 0) + Count(Tail(log), S)

----------------------------------------------------------------------------
(* The universe: entities, and the component classes registered by onInit *)

Entities == {"e1", "e2"}
Defs == {"Base", "Health", "Turret"}
Unregistered == "Ghost"
Specifiers == Defs \cup {Unregistered}
TagNames == {"living", "enemy"}
AttrNames == {"ammo", "power"}
Nil == "nil"
Numbers == {"0", "3"}
AttrValues == {Nil} \cup Numbers
Resolvers == {"p1", "p2"}

NoErr == "none"
Absent == <<>>

\* config.tag
Tag(d) ==
    CASE d = "Health" -> "living"
      [] d = "Turret" -> "enemy"
      [] OTHER -> Nil

\* ComponentInfo.componentDependencies (constructor parameters that are components)
componentDependencies(d) ==
    CASE d = "Health" -> <<"Base">>
      [] d = "Turret" -> <<"Health">>
      [] OTHER -> <<>>

\* config.instanceGuard is configured
HasInstanceGuard(c) == c \in {"Base", "Health"}

\* config.attributes: the attribute guards a class declares itself
ConfigAttributes(c) ==
    CASE c = "Base" -> {"power", "ammo"}
      [] c = "Turret" -> {"ammo"}
      [] OTHER -> {}

\* every attribute guard of the model is t.number
AttrGuard(v) == v \in Numbers

\* config.defaults
ConfigDefaults(c) ==
    CASE c \in {"Base", "Turret"} -> [k \in {"ammo"} |-> "0"]
      [] OTHER -> <<>>

\* RunService.IsClient()
IsClient == TRUE

\* config.streamingMode
StreamingMode(d) ==
    CASE d = "Health" -> "Contextual"
      [] d = "Turret" -> "Watching"
      [] OTHER -> "Disabled"

DefaultWarningTimeout == 5

\* criteria.warningTimeout ?? 5: Turret leaves config.warningTimeout unset
WarningTimeout(d) ==
    CASE d = "Turret" -> DefaultWarningTimeout
      [] OTHER -> 0

\* config.refreshAttributes ("nil": not configured)
ConfigRefreshAttributes(c) ==
    CASE c = "Base" -> "false"
      [] OTHER -> Nil

\* the superclass of a class (getmetatable(ctor).__index), Nil at the root
ParentClass(c) ==
    CASE c = "Turret" -> "Weapon"
      [] OTHER -> Nil

\* Reflect.getOwnMetadata(class, "identifier")
OwnIdentifier(c) == c

\* Reflect.getMetadatas(component, "flamework:implements"), flattened
Implements(d) ==
    CASE d = "Health" -> {"OnTick"}
      [] d = "Turret" -> {"OnTick", "Weapon"}
      [] OTHER -> {}

\* instance.IsA("Model") and the model streams atomically
IsAtomicModel(e) == e = "e2"

\* the attributes the entities are created with
InitialAttributes(e) ==
    [k \in AttrNames |-> IF e = "e2" /\ k = "power" THEN "3" ELSE Nil]

\* where an instance can be: under Workspace, under ReplicatedStorage, or with no
\* Parent at all (outside the DataModel, where CollectionService raises no signal)
Places == {"Workspace", "ReplicatedStorage", Nil}

\* config.predicate (TRUE where no predicate is configured)
Predicate(d, e) == ~(d = "Turret" /\ e = "e2")

\* config.ancestorWhitelist ({}: not configured)
AncestorWhitelist(d) ==
    CASE d = "Turret" -> {"Workspace", "ReplicatedStorage"}
      [] OTHER -> {}

\* config.ancestorBlacklist ?? DEFAULT_ANCESTOR_BLACKLIST
AncestorBlacklist(d) == {"ServerStorage", "ReplicatedStorage"}

\* the class implements OnStart, and whether its onStart raises an error
StartHook(d) ==
    CASE d = "Health" -> "ok"
      [] d = "Turret" -> "fails"
      [] OTHER -> "none"

\* the constructor body of the class looks its own component up on its instance
\* (components.getComponent(this.instance, ctor))
ConstructorLooksUp(d) == d = "Base"

\* does class c configure `key` itself
Configures(c, key) ==
    CASE key = "defaults" -> DOMAIN ConfigDefaults(c) # {}
      [] key = "refreshAttributes" -> ConfigRefreshAttributes(c) # Nil
      [] key = "instanceGuard" -> HasInstanceGuard(c)
      [] OTHER -> FALSE

RECURSIVE getConfigValue(_, _)
\* getConfigValue: the nearest class of the chain that configures `key` (Nil: none)
getConfigValue(c, key) ==
    IF c \notin Defs THEN Nil
    ELSE IF Configures(c, key) THEN c
    ELSE IF ParentClass(c) # Nil THEN getConfigValue(ParentClass(c), key)
    ELSE Nil

RECURSIVE getAttributeGuards(_)
\* getAttributeGuards: the guarded attribute names of a class and its ancestors
getAttributeGuards(c) ==
    IF c \notin Defs THEN {}
    ELSE ConfigAttributes(c)
         \cup (IF ParentClass(c) # Nil THEN getAttributeGuards(ParentClass(c)) ELSE {})

RECURSIVE getOrderedParents(_)
\* getOrderedParents: the class and its superclasses, BaseComponent left out
getOrderedParents(c) ==
    <<c>> \o (IF ParentClass(c) # Nil THEN getOrderedParents(ParentClass(c)) ELSE <<>>)

\* the identifiers addComponent and removeComponent file an instance under
IdList(d) ==
    [i \in 1 .. Len(getOrderedParents(d)) |-> OwnIdentifier(getOrderedParents(d)[i])]
    \o SetToSeq(Implements(d))

Identifiers == UNION {{IdList(d)[i] : i \in 1 .. Len(IdList(d))} : d \in Defs}

ListenerKinds == {"reg", "usr", "dep"}

\* the orders in which a `for ... of` over a Set of listeners can visit them
ListenerOrders == {<<"reg", "usr", "dep">>, <<"dep", "usr", "reg">>}

\* the orders in which pairs() can visit the attribute guards
KeyOrders == {<<"ammo", "power">>, <<"power", "ammo">>}

\* the orders in which the signals of an instance's tags can fire
TagOrders == {<<"living", "enemy">>, <<"enemy", "living">>}

----------------------------------------------------------------------------
(* ComponentTracker *)

TypeGuardMarker == "type guard"
TagMarker == "CollectionService tag"

\* the Criteria getComponentTracker builds for the tracker of d
CriteriaTypeGuard(d) == getConfigValue(d, "instanceGuard") # Nil
CriteriaTypeGuardPoll(d) ==
    (StreamingMode(d) = "Contextual" /\ IsClient) \/ StreamingMode(d) = "Watching"
CriteriaTypeGuardPollAtomic(d) == StreamingMode(d) # "Contextual"

\* typeGuard(instance): the instance guard applied to the entity's current tree
TypeGuard(s, e) == s.shape[e]

\* the InstanceTracker getInstanceTracker creates
NewInstanceTracker ==
    [isQualified |-> TRUE, unmetCriteria |-> {}, listeners |-> {}, cleanup |-> {},
     conn |-> {}, task |-> "none", timer |-> "none"]

getInstanceTracker(s, d, e) ==
    IF Has(s.instances[d], e) THEN s
    ELSE [s EXCEPT !.instances[d] = Put(@, e, NewInstanceTracker)]

\* the listeners of a tracked entity in the order s.ord visits them
ListenersInOrder(s, ls) ==
    LET ofKind(k) == SetToSeq({l \in ls : l[1] = k})
    IN ofKind(s.ord[1]) \o ofKind(s.ord[2]) \o ofKind(s.ord[3])

RECURSIVE UpdateListeners(_, _, _), NotifyListeners(_, _, _, _, _), CallListener(_, _, _, _, _)
RECURSIVE TrackInstance(_, _, _, _), UntrackInstance(_, _, _, _)
RECURSIVE SetupDependencies(_, _, _, _), RunCleanup(_, _, _, _)
RECURSIVE CheckInstance(_, _, _), TestDependencies(_, _, _, _)
RECURSIVE AddComponent(_, _, _, _), RemoveComponent(_, _, _), GetComponent(_, _, _)
RECURSIVE Construct(_, _, _, _)
RECURSIVE Untag(_, _, _)

\* checkInstance, and testInstance without a tracker: no state is touched
CheckInstance(s, d, e) ==
    IF Has(s.instances[d], e) THEN s.instances[d][e].isQualified
    ELSE /\ \A i \in 1 .. Len(componentDependencies(d)) :
                CheckInstance(s, componentDependencies(d)[i], e)
         /\ CriteriaTypeGuard(d) => TypeGuard(s, e)
         /\ Tag(d) # Nil => Tag(d) \in s.tags[e]

\* every tracked entity's cached flag agrees with its set of unmet criteria
Coherent(s) ==
    \A d \in Defs : \A e \in DOMAIN s.instances[d] :
        s.instances[d][e].isQualified = (s.instances[d][e].unmetCriteria = {})

NoListener == <<"none", "none">>

\* the record s.calls keeps of a marker mutation and of a listener invocation
Mutation(s, d, e, unmetCriteria) ==
    [kind |-> "mark", d |-> d, e |-> e, l |-> NoListener,
     value |-> unmetCriteria = {},
     flips |-> (unmetCriteria = {}) # s.instances[d][e].isQualified,
     listeners |-> s.instances[d][e].listeners, coherent |-> TRUE]

Invocation(s, kind, d, e, l, isQualified) ==
    [kind |-> kind, d |-> d, e |-> e, l |-> l, value |-> isQualified, flips |-> FALSE,
     listeners |-> s.instances[d][e].listeners, coherent |-> Coherent(s)]

Log(s, entry) == [s EXCEPT !.calls = Append(@, entry)]

\* one marker mutation of a live InstanceTracker followed by updateListeners
Mark(s, d, e, marker, unmet) ==
    LET unmetCriteria == IF unmet THEN s.instances[d][e].unmetCriteria \cup {marker}
                         ELSE s.instances[d][e].unmetCriteria \ {marker}
    IN  UpdateListeners(
            [Log(s, Mutation(s, d, e, unmetCriteria))
                EXCEPT !.instances[d][e].unmetCriteria = unmetCriteria],
            d, e)

\* fault: the cached flag is assigned after the listeners have run
AssignLate(s2, d, e, isQualified) ==
    IF s2.err # NoErr THEN s2
    ELSE [s2 EXCEPT !.instances[d][e].isQualified = isQualified,
                    !.instances[d][e].timer =
                        IF isQualified /\ @ = "armed" THEN "none" ELSE @]

UpdateListenersLate(s, d, e) ==
    IF s.err # NoErr THEN s
    ELSE
    LET tracker == s.instances[d][e]
        isQualified == tracker.unmetCriteria = {}
    IN  IF isQualified = tracker.isQualified THEN s
        ELSE AssignLate(
                 NotifyListeners(s, d, e, ListenersInOrder(s, tracker.listeners),
                                 isQualified),
                 d, e, isQualified)

\* the end of updateListeners, once every listener has returned: a tracker that
\* became qualified cancels its pending warning thread
CancelWarning(s2, d, e, isQualified) ==
    IF s2.err # NoErr THEN s2
    ELSE IF isQualified /\ s2.instances[d][e].timer = "armed"
    THEN [s2 EXCEPT !.instances[d][e].timer = "none"]
    ELSE s2

UpdateListeners(s, d, e) ==
    IF s.err # NoErr THEN s
    ELSE
    LET tracker == s.instances[d][e]
        isQualified == tracker.unmetCriteria = {}
    IN  IF isQualified = tracker.isQualified THEN s
        ELSE CancelWarning(
                 NotifyListeners([s EXCEPT !.instances[d][e].isQualified = isQualified],
                                 d, e, ListenersInOrder(s, tracker.listeners),
                                 isQualified),
                 d, e, isQualified)

NotifyListeners(s, d, e, ls, isQualified) ==
    IF ls = <<>> \/ s.err # NoErr THEN s
    ELSE IF ~Has(s.instances[d], e) \/ Head(ls) \notin s.instances[d][e].listeners
    THEN NotifyListeners(s, d, e, Tail(ls), isQualified)
    ELSE NotifyListeners(
             CallListener(Log(s, Invocation(s, "update", d, e, Head(ls), isQualified)),
                          d, e, Head(ls), isQualified),
             d, e, Tail(ls), isQualified)

\* fault: the registry's listener attaches and never detaches
CallListenerAttachOnly(s, d, e, l, isQualified) ==
    IF s.err # NoErr THEN s
    ELSE
    CASE l[1] = "reg" -> IF isQualified THEN AddComponent(s, e, d, TRUE) ELSE s
      [] l[1] = "dep" -> Mark(s, l[2], e, d, ~isQualified)
      [] OTHER -> s

\* a caller's listener that takes the tag of the class off an entity as soon as
\* it is told that the entity is qualified
UntaggingListener == <<"usr", "untags">>

\* listener(isQualified, instance) for the three kinds of listener the program has:
\* the registry's (onStart), a dependent tracker's (setupTracker), and a caller's own
CallListener(s, d, e, l, isQualified) ==
    IF s.err # NoErr THEN s
    ELSE
    CASE l[1] = "reg" ->
            IF isQualified THEN AddComponent(s, e, d, TRUE)
            ELSE RemoveComponent(s, e, d)
      [] l[1] = "dep" -> Mark(s, l[2], e, d, ~isQualified)
      [] l = UntaggingListener ->
            IF isQualified /\ Tag(d) \in s.tags[e] THEN Untag(s, e, Tag(d)) ELSE s
      [] OTHER -> s

\* testInstance with a tracker: every unmet criterion is recorded
TestDependencies(s, d, e, i) ==
    IF i > Len(componentDependencies(d)) THEN s
    ELSE LET dependency == componentDependencies(d)[i]
         IN  TestDependencies(
                 IF CheckInstance(s, dependency, e) THEN s
                 ELSE Mark(s, d, e, dependency, TRUE),
                 d, e, i + 1)

\* fault: testInstance does not apply the type guard
TestTypeGuardSkipped(s, d, e) == s

\* testInstance: the type guard
TestTypeGuard(s, d, e) ==
    IF CriteriaTypeGuard(d) /\ ~TypeGuard(s, e)
    THEN Mark(s, d, e, TypeGuardMarker, TRUE) ELSE s

\* testInstance: the tag
TestTag(s, d, e) ==
    IF Tag(d) # Nil /\ Tag(d) \notin s.tags[e]
    THEN Mark(s, d, e, TagMarker, TRUE) ELSE s

TestInstance(s, d, e) ==
    TestTag(TestTypeGuard(TestDependencies(s, d, e, 1), d, e), d, e)

\* setupTracker polls the instance guard for this entity
Polls(d, e) ==
    /\ CriteriaTypeGuard(d)
    /\ CriteriaTypeGuardPoll(d)
    /\ CriteriaTypeGuardPollAtomic(d) \/ ~IsAtomicModel(e)

\* connectAdded / connectRemoving on an InstanceTracker: the other connection is
\* disconnected and a new one, with its own isScheduled flag, is made
connectAdded(tracker) == [tracker EXCEPT !.conn = (@ \ {"removing"}) \cup {"added"}]

\* fault: connectRemoving leaves the DescendantAdded connection as it is
connectRemovingKeepsAdded(tracker) == [tracker EXCEPT !.conn = @ \cup {"removing"}]

connectRemoving(tracker) == [tracker EXCEPT !.conn = (@ \ {"added"}) \cup {"removing"}]

SetupPolling(s, d, e) ==
    IF ~Polls(d, e) THEN s
    ELSE LET tracker == s.instances[d][e]
             t1 == [tracker EXCEPT !.cleanup = @ \cup {"poll"}]
         IN  [s EXCEPT !.instances[d][e] =
                 IF TypeGuardMarker \in tracker.unmetCriteria
                 THEN connectAdded(t1) ELSE connectRemoving(t1)]

\* tracker.cleanup.add(() => dependency.untrackInstance(instance, listener))
AddCleanup(s, d, e, dependency) ==
    IF s.err # NoErr THEN s
    ELSE [s EXCEPT !.instances[d][e].cleanup = @ \cup {dependency}]

SetupDependencies(s, d, e, i) ==
    IF i > Len(componentDependencies(d)) \/ s.err # NoErr THEN s
    ELSE LET dependency == componentDependencies(d)[i]
         IN  SetupDependencies(
                 AddCleanup(TrackInstance(s, dependency, e, <<"dep", d>>),
                            d, e, dependency),
                 d, e, i + 1)

SetupWarning(s, d, e) ==
    IF s.err # NoErr THEN s
    ELSE IF ~s.instances[d][e].isQualified /\ WarningTimeout(d) # 0
    THEN [s EXCEPT !.instances[d][e].timer = "armed"]
    ELSE s

SetupTracker(s, d, e) ==
    SetupWarning(SetupDependencies(SetupPolling(s, d, e), d, e, 1), d, e)

\* trackInstance: the listener is added and called with the tracker's flag
AddListener(s, d, e, listener) ==
    IF s.err # NoErr THEN s
    ELSE LET s3 == [s EXCEPT !.instances[d][e].listeners = @ \cup {listener}]
             isQualified == s.instances[d][e].isQualified
         IN  CallListener(Log(s3, Invocation(s3, "track", d, e, listener, isQualified)),
                          d, e, listener, isQualified)

\* fault: only the listener that starts the tracking of an entity is called
TrackInstanceNewOnly(s, d, e, listener) ==
    IF s.err # NoErr THEN s
    ELSE IF Has(s.instances[d], e)
    THEN [s EXCEPT !.instances[d][e].listeners = @ \cup {listener}]
    ELSE AddListener(SetupTracker(TestInstance(getInstanceTracker(s, d, e), d, e), d, e),
                     d, e, listener)

TrackInstance(s, d, e, listener) ==
    IF s.err # NoErr THEN s
    ELSE
    LET isNewInstance == ~Has(s.instances[d], e)
    IN  AddListener(
            IF isNewInstance
            THEN SetupTracker(TestInstance(getInstanceTracker(s, d, e), d, e), d, e)
            ELSE getInstanceTracker(s, d, e),
            d, e, listener)

\* an InstanceTracker that left `instances` is still reachable from its pending
\* warning thread and deferred task, and from a connection it has live
IsHeld(tracker) ==
    tracker.timer = "armed" \/ tracker.task # "none" \/ tracker.conn # {}

\* fault: the cleanup of a dependency is never registered
RunCleanupPollOnly(s, d, e, todo) ==
    IF "poll" \in todo THEN [s EXCEPT !.instances[d][e].conn = {}] ELSE s

\* the cleanup callbacks of setupTracker
RunCleanup(s, d, e, todo) ==
    IF todo = {} \/ s.err # NoErr THEN s
    ELSE LET c == CHOOSE x \in todo : TRUE
         IN  RunCleanup(
                 IF c = "poll"
                 THEN [s EXCEPT !.instances[d][e].conn = {}]
                 ELSE UntrackInstance(s, c, e, <<"dep", d>>),
                 d, e, todo \ {c})

\* this.instances.delete(instance)
DeleteInstance(s, d, e) ==
    IF s.err # NoErr THEN s
    ELSE LET tracker == s.instances[d][e]
         IN  [s EXCEPT !.instances[d] = Del(@, e),
                       !.orphans = IF s.followOrphans /\ IsHeld(tracker)
                                   THEN @ \cup {[d |-> d, e |-> e, t |-> tracker]}
                                   ELSE @]

\* fault: the cleanup runs whether or not other listeners are left
UntrackInstanceAlwaysCleans(s, d, e, listener) ==
    IF s.err # NoErr \/ ~Has(s.instances[d], e) THEN s
    ELSE DeleteInstance(
             RunCleanup([s EXCEPT !.instances[d][e].listeners = @ \ {listener}], d, e,
                        s.instances[d][e].cleanup),
             d, e)

UntrackInstance(s, d, e, listener) ==
    IF s.err # NoErr \/ ~Has(s.instances[d], e) THEN s
    ELSE
    LET s1 == [s EXCEPT !.instances[d][e].listeners = @ \ {listener}]
    IN  IF s1.instances[d][e].listeners # {} THEN s1
        ELSE DeleteInstance(RunCleanup(s1, d, e, s1.instances[d][e].cleanup), d, e)

\* fault: setHasTag makes an InstanceTracker for an entity that has none
SetHasTagCreates(s, d, e, hasTag) ==
    IF s.err # NoErr THEN s
    ELSE Mark(getInstanceTracker(s, d, e), d, e, TagMarker, ~hasTag)

SetHasTag(s, d, e, hasTag) ==
    IF s.err # NoErr \/ ~Has(s.instances[d], e) THEN s
    ELSE Mark(s, d, e, TagMarker, ~hasTag)

\* fault: checkInstance obtains the InstanceTracker as trackInstance does, creating
\* and evaluating it
CheckInstanceTracks(s, d, e) ==
    [TestInstance(getInstanceTracker(s, d, e), d, e) EXCEPT
        !.ret = TestInstance(getInstanceTracker(s, d, e), d, e).instances[d][e].isQualified]

\* checkInstance as a call: the state it leaves and, in ret, what it returns
CheckInstanceCall(s, d, e) == [s EXCEPT !.ret = CheckInstance(s, d, e)]

----------------------------------------------------------------------------
(* Components *)

Raise(s, err) == [s EXCEPT !.err = err]
Return(s, value) == [s EXCEPT !.ret = value]

\* the BaseComponent Modding.createDeferredDependency allocates: its constructor
\* body has not run, its maid is empty
NewComponent(e, d) ==
    [e |-> e, d |-> d, attributes |-> EmptyMap, constructed |-> 0, started |-> FALSE,
     watching |-> FALSE, destroyed |-> 0]

\* the objects allocated before for (e, d), and the identity of the next one
Previous(s, e, d) == {c \in DOMAIN s.comps : c[1] = e /\ c[2] = d}
NextComponent(s, e, d) ==
    IF Previous(s, e, d) = {} THEN <<e, d, 1>>
    ELSE LET c == CHOOSE x \in Previous(s, e, d) : TRUE
         IN  <<e, d, (c[3] % Generations) + 1>>

\* the components of entity e whose attribute-changed connection for `key` is live
Watchers(s, e, key) ==
    {c \in DOMAIN s.comps :
        /\ s.comps[c].e = e
        /\ s.comps[c].watching
        /\ key \in getAttributeGuards(s.comps[c].d)}

\* instance.SetAttribute(key, value) and, when the value changes, the handlers
\* setupComponent connected to GetAttributeChangedSignal(key)
SetAttribute(s, e, key, value) ==
    IF s.attrs[e][key] = value THEN s
    ELSE LET ws == IF AttrGuard(value) THEN Watchers(s, e, key) ELSE {}
         IN  [s EXCEPT !.attrs[e][key] = value,
                       !.fired = @ \o SetToSeq({<<c, key, value, s.comps[c].attributes[key]>> :
                                                    c \in ws}),
                       !.comps = [c \in DOMAIN @ |->
                                    IF c \in ws
                                    THEN [@[c] EXCEPT !.attributes = Put(@, key, value)]
                                    ELSE @[c]]]

RECURSIVE GetAttributesLoopKeepsEntity(_, _, _, _, _)
\* fault: a default is used for the instance and not written to the entity
GetAttributesLoopKeepsEntity(s, e, d, keys, newAttributes) ==
    IF keys = <<>> THEN Return(s, newAttributes)
    ELSE IF AttrGuard(s.ret[Head(keys)])
    THEN GetAttributesLoopKeepsEntity(s, e, d, Tail(keys),
                                      Put(newAttributes, Head(keys), s.ret[Head(keys)]))
    ELSE IF /\ getConfigValue(d, "defaults") # Nil
            /\ Has(ConfigDefaults(getConfigValue(d, "defaults")), Head(keys))
    THEN GetAttributesLoopKeepsEntity(
             s, e, d, Tail(keys),
             Put(newAttributes, Head(keys),
                 ConfigDefaults(getConfigValue(d, "defaults"))[Head(keys)]))
    ELSE Raise(s, "InvalidAttribute")

RECURSIVE GetAttributesLoop(_, _, _, _, _)
GetAttributesLoop(s, e, d, keys, newAttributes) ==
    IF keys = <<>> THEN Return(s, newAttributes)
    ELSE
    LET key == Head(keys)
        attribute == s.ret[key]
        defaults == getConfigValue(d, "defaults")
    IN  IF AttrGuard(attribute)
        THEN GetAttributesLoop(s, e, d, Tail(keys), Put(newAttributes, key, attribute))
        ELSE IF defaults # Nil /\ Has(ConfigDefaults(defaults), key)
        THEN GetAttributesLoop(
                 SetAttribute(s, e, key, ConfigDefaults(defaults)[key]), e, d, Tail(keys),
                 Put(newAttributes, key, ConfigDefaults(defaults)[key]))
        ELSE Raise(s, "InvalidAttribute")

\* getAttributes; s.ret holds instance.GetAttributes() while the guards are visited
GetAttributes(s, e, d, guards) ==
    GetAttributesLoop(Return(s, s.attrs[e]), e, d,
                      SelectSeq(s.kord, LAMBDA k : k \in guards), EmptyMap)

AddIdMapping(s, e, value, id) ==
    [s EXCEPT !.activeInheritedComponents[e] = Put(@, id, Get(@, id, {}) \cup {value}),
              !.reverseComponentsMapping = Put(@, id, Get(@, id, {}) \cup {value})]

\* fault: the instance is not taken out of the global index
RemoveIdMappingLocalOnly(s, e, value, id) ==
    IF ~Has(s.activeInheritedComponents, e) THEN s
    ELSE IF ~Has(s.activeInheritedComponents[e], id) THEN s
    ELSE
    LET instancesOfId == s.activeInheritedComponents[e][id] \ {value}
        inheritedComponents ==
            IF instancesOfId = {} THEN Del(s.activeInheritedComponents[e], id)
            ELSE Put(s.activeInheritedComponents[e], id, instancesOfId)
    IN  [s EXCEPT !.activeInheritedComponents =
                      IF DOMAIN inheritedComponents = {} THEN Del(@, e)
                      ELSE Put(@, e, inheritedComponents)]

RemoveIdMapping(s, e, value, id) ==
    IF ~Has(s.activeInheritedComponents, e) THEN s
    ELSE IF ~Has(s.activeInheritedComponents[e], id) THEN s
    ELSE IF ~Has(s.reverseComponentsMapping, id) THEN s
    ELSE
    LET instancesOfId == s.activeInheritedComponents[e][id] \ {value}
        inheritedLookup == s.reverseComponentsMapping[id] \ {value}
        inheritedComponents ==
            IF instancesOfId = {} THEN Del(s.activeInheritedComponents[e], id)
            ELSE Put(s.activeInheritedComponents[e], id, instancesOfId)
    IN  [s EXCEPT !.reverseComponentsMapping =
                      IF inheritedLookup = {} THEN Del(@, id) ELSE Put(@, id, inheritedLookup),
                  !.activeInheritedComponents =
                      IF DOMAIN inheritedComponents = {} THEN Del(@, e)
                      ELSE Put(@, e, inheritedComponents)]

RECURSIVE AddIdMappings(_, _, _, _), RemoveIdMappings(_, _, _, _)
AddIdMappings(s, e, value, ids) ==
    IF ids = <<>> THEN s
    ELSE AddIdMappings(AddIdMapping(s, e, value, Head(ids)), e, value, Tail(ids))

RemoveIdMappings(s, e, value, ids) ==
    IF ids = <<>> THEN s
    ELSE RemoveIdMappings(RemoveIdMapping(s, e, value, Head(ids)), e, value, Tail(ids))

\* fault: the tag is not consulted
canCreateComponentEagerUntagged(s, e, d) ==
    /\ d \in Defs
    /\ s.place[e] # Nil
    /\ CheckInstance(s, d, e)

canCreateComponentEager(s, e, d) ==
    /\ d \in Defs
    /\ Tag(d) # Nil
    /\ s.place[e] # Nil
    /\ Tag(d) \in s.tags[e]
    /\ CheckInstance(s, d, e)

\* fault: the eager attach runs the instance guard again
GetComponentGuarded(s, e, d) ==
    IF s.err # NoErr THEN s
    ELSE IF Has(s.activeComponents, e) /\ Has(s.activeComponents[e], d)
    THEN Return(s, s.activeComponents[e][d])
    ELSE IF canCreateComponentEager(s, e, d) THEN AddComponent(s, e, d, FALSE)
    ELSE Return(s, Absent)

GetComponent(s, e, d) ==
    IF s.err # NoErr THEN s
    ELSE IF Has(s.activeComponents, e) /\ Has(s.activeComponents[e], d)
    THEN Return(s, s.activeComponents[e][d])
    ELSE IF canCreateComponentEager(s, e, d) THEN AddComponent(s, e, d, TRUE)
    ELSE Return(s, Absent)

\* handle of getDependencyResolutionOptions: a dependency that getComponent does
\* not yield is an error
Resolve(s) ==
    IF s.err # NoErr THEN s
    ELSE IF s.ret = Absent THEN Raise(s, "UnresolvedDependency")
    ELSE s

\* the deferred construction: every component dependency is resolved through the
\* handle of getDependencyResolutionOptions, then the constructor body runs
Construct(s, e, d, i) ==
    IF s.err # NoErr THEN s
    ELSE IF i > Len(componentDependencies(d)) THEN s
    ELSE Construct(Resolve(GetComponent(s, e, componentDependencies(d)[i])),
                   e, d, i + 1)

\* the waiters of (e, d) are taken out of componentWaiters, then each is resolved
ResolveWaiters(s, e, d, component) ==
    IF ~(Has(s.componentWaiters, e) /\ Has(s.componentWaiters[e], d)) THEN s
    ELSE LET waiting == s.componentWaiters[e][d]
             instanceWaiters == Del(s.componentWaiters[e], d)
         IN  [s EXCEPT !.componentWaiters =
                           IF DOMAIN instanceWaiters = {} THEN Del(@, e)
                           ELSE Put(@, e, instanceWaiters),
                       !.resolved = @ \o SetToSeq({<<r, component>> : r \in waiting}),
                       !.promises = [r \in DOMAIN @ |->
                                        IF r \in waiting /\ @[r].status = "pending"
                                        THEN [@[r] EXCEPT !.status = "resolved",
                                                          !.value = component]
                                        ELSE @[r]]]

\* fault: an error of onStart ends setupComponent
StartComponentStopsOnFail(s2, e, component, d) ==
    IF s2.err # NoErr THEN s2
    ELSE IF StartHook(d) = "fails"
    THEN [s2 EXCEPT !.comps[component].constructed = @ + 1,
                    !.warns = @ \cup {<<"onStart", d, e>>}]
    ELSE ResolveWaiters(
             [s2 EXCEPT !.comps[component].constructed = @ + 1,
                        !.comps[component].started = StartHook(d) = "ok",
                        !.comps[component].watching =
                            \/ getConfigValue(d, "refreshAttributes") = Nil
                            \/ ConfigRefreshAttributes(getConfigValue(d, "refreshAttributes"))
                                   = "true"],
             e, d, component)

\* setupComponent once construct() has returned: onStart, the attribute
\* connections, the waiters
StartComponent(s2, e, component, d) ==
    IF s2.err # NoErr THEN s2
    ELSE
        LET s3 == [s2 EXCEPT !.comps[component].constructed = @ + 1]
            \* safeCall: an error of onStart is caught and reported
            s4 == CASE StartHook(d) = "ok" -> [s3 EXCEPT !.comps[component].started = TRUE]
                    [] StartHook(d) = "fails" ->
                           [s3 EXCEPT !.warns = @ \cup {<<"onStart", d, e>>}]
                    [] OTHER -> s3
            refreshAttributes == getConfigValue(d, "refreshAttributes")
            s5 == IF refreshAttributes = Nil
                     \/ ConfigRefreshAttributes(refreshAttributes) = "true"
                  THEN [s4 EXCEPT !.comps[component].watching = TRUE]
                  ELSE s4
        IN  ResolveWaiters(s5, e, d, component)

\* what a getComponent called from the constructor body of `component` returned
RecordLookup(s1, component) ==
    IF s1.err # NoErr THEN s1
    ELSE [s1 EXCEPT !.lookups = Append(@, [component |-> component, ret |-> s1.ret,
                                           constructed |-> s1.comps[component].constructed])]

\* the constructor body, which construct() runs once the dependencies are resolved
ConstructorBody(s1, e, component, d) ==
    IF s1.err # NoErr THEN s1
    ELSE IF ConstructorLooksUp(d) THEN RecordLookup(GetComponent(s1, e, d), component)
    ELSE s1

SetupComponent(s, e, attributes, component, d) ==
    StartComponent(
        ConstructorBody(
            Construct([s EXCEPT !.comps[component].attributes = attributes], e, d, 1),
            e, component, d),
        e, component, d)

\* a missing existing check: every attach allocates
ExistingComponentForgotten(s, e, d) == Absent

\* activeComponents.get(component) in addComponent
ExistingComponent(s, e, d) == Get(s.activeComponents[e], d, Absent)

\* return componentInstance
ReturnComponent(s, componentInstance) ==
    IF s.err # NoErr THEN s ELSE Return(s, componentInstance)

\* fault, continued: activeComponents.set(component, componentInstance), last
StoreComponent(s, e, d, componentInstance) ==
    IF s.err # NoErr THEN s
    ELSE Return([s EXCEPT !.activeComponents[e] = Put(@, d, componentInstance)],
                componentInstance)

\* fault: the new instance is stored in activeComponents once it is set up
CreateComponentStoresLate(s2, e, d, attributes) ==
    LET componentInstance == NextComponent(s2, e, d)
        s3 == [s2 EXCEPT !.comps = [c \in (DOMAIN @ \ Previous(s2, e, d))
                                            \cup {componentInstance} |->
                                       IF c = componentInstance
                                       THEN NewComponent(e, d) ELSE @[c]],
                         !.allocated = Append(@, componentInstance)]
    IN  StoreComponent(
            SetupComponent(AddIdMappings(s3, e, componentInstance, IdList(d)),
                           e, attributes, componentInstance, d),
            e, d, componentInstance)

\* addComponent from createDeferredDependency on: the new instance is stored,
\* filed under its identifiers and set up
CreateComponent(s2, e, d, attributes) ==
    LET componentInstance == NextComponent(s2, e, d)
        s3 == [s2 EXCEPT !.comps = [c \in (DOMAIN @ \ Previous(s2, e, d))
                                            \cup {componentInstance} |->
                                       IF c = componentInstance
                                       THEN NewComponent(e, d) ELSE @[c]],
                         !.allocated = Append(@, componentInstance),
                         !.activeComponents[e] = Put(@, d, componentInstance)]
    IN  ReturnComponent(
            SetupComponent(AddIdMappings(s3, e, componentInstance, IdList(d)),
                           e, attributes, componentInstance, d),
            componentInstance)

\* addComponent once getAttributes has returned (in s1.ret): the instance guard,
\* the entity's maps, the existing instance
\* fault: the instance guard is asserted whatever skipInstanceCheck says
GuardAndCreateAlwaysChecks(s1, e, d, skipInstanceCheck) ==
    IF s1.err # NoErr THEN s1
    ELSE IF getConfigValue(d, "instanceGuard") # Nil /\ ~TypeGuard(s1, e)
    THEN Raise(s1, "GuardRejected")
    ELSE IF ExistingComponent(
                [s1 EXCEPT !.activeComponents =
                               IF Has(@, e) THEN @ ELSE Put(@, e, EmptyMap)], e, d) # Absent
    THEN Return([s1 EXCEPT !.activeComponents =
                               IF Has(@, e) THEN @ ELSE Put(@, e, EmptyMap),
                           !.activeInheritedComponents =
                               IF Has(@, e) THEN @ ELSE Put(@, e, EmptyMap)],
                ExistingComponent(
                    [s1 EXCEPT !.activeComponents =
                                   IF Has(@, e) THEN @ ELSE Put(@, e, EmptyMap)], e, d))
    ELSE CreateComponent(
             [s1 EXCEPT !.activeComponents =
                            IF Has(@, e) THEN @ ELSE Put(@, e, EmptyMap),
                        !.activeInheritedComponents =
                            IF Has(@, e) THEN @ ELSE Put(@, e, EmptyMap)],
             e, d, s1.ret)

GuardAndCreate(s1, e, d, skipInstanceCheck) ==
    IF s1.err # NoErr THEN s1
    ELSE IF /\ ~skipInstanceCheck
            /\ getConfigValue(d, "instanceGuard") # Nil
            /\ ~TypeGuard(s1, e)
    THEN Raise(s1, "GuardRejected")
    ELSE
    LET s2 == [s1 EXCEPT
                 !.activeComponents =
                     IF Has(@, e) THEN @ ELSE Put(@, e, EmptyMap),
                 !.activeInheritedComponents =
                     IF Has(@, e) THEN @ ELSE Put(@, e, EmptyMap)]
    IN  IF ExistingComponent(s2, e, d) # Absent
        THEN Return(s2, ExistingComponent(s2, e, d))
        ELSE CreateComponent(s2, e, d, s1.ret)

AddComponent(s, e, d, skipInstanceCheck) ==
    IF s.err # NoErr THEN s
    ELSE IF d \notin Defs THEN Raise(s, "UnknownDefinition")
    ELSE GuardAndCreate(GetAttributes(s, e, d, getAttributeGuards(d)),
                        e, d, skipInstanceCheck)

\* BaseComponent.destroy: the maid's tasks (the attribute connections of
\* setupComponent among them) and the attribute-changed signals are destroyed
\* getComponents
GetComponents(s, e, id) ==
    IF ~Has(s.activeInheritedComponents, e) THEN {}
    ELSE Get(s.activeInheritedComponents[e], id, {})

\* getAllComponents
GetAllComponents(s, id) == Get(s.reverseComponentsMapping, id, {})

\* the maid of the class holds a cleanup task that looks its own component up on
\* its instance with getComponent, getComponents and getAllComponents
CleanupLooksUp(d) == d = "Health"

\* what the lookups of the cleanup task of `component` returned; s1 is the state
\* after its getComponent, ret what the caller of destroy held
RecordCleanup(s1, ret, component) ==
    IF s1.err # NoErr THEN s1
    ELSE [s1 EXCEPT !.cleanups =
                        Append(@, [component |-> component, get |-> s1.ret,
                                   all |-> GetComponents(s1, component[1], component[2]),
                                   every |-> GetAllComponents(s1, component[2])]),
                    !.ret = ret]

\* maid.Destroy: the cleanup tasks given to the maid of the component run
MaidTasks(s, component) ==
    IF CleanupLooksUp(component[2])
    THEN RecordCleanup(GetComponent(s, component[1], component[2]), s.ret, component)
    ELSE s

Destroy(s, component) ==
    [MaidTasks(s, component) EXCEPT !.comps[component].destroyed = @ + 1,
              !.comps[component].watching = FALSE,
              !.destroys = Append(@, component)]

\* removeComponent: an entity left without components leaves activeComponents
PruneActive(s, e) ==
    IF DOMAIN s.activeComponents[e] = {}
    THEN [s EXCEPT !.activeComponents = Del(@, e)]
    ELSE s

\* fault: the entity's map is kept when its last component leaves
RemoveComponentKeepsEmpty(s, e, d) ==
    IF s.err # NoErr THEN s
    ELSE IF ~Has(s.activeComponents, e) THEN s
    ELSE IF ~Has(s.activeComponents[e], d) THEN s
    ELSE
    LET existingComponent == s.activeComponents[e][d]
    IN  RemoveIdMappings([Destroy(s, existingComponent) EXCEPT
                             !.activeComponents[e] = Del(@, d)],
                         e, existingComponent, IdList(d))

\* fault: the component stays in activeComponents after its teardown
RemoveComponentKeepsActive(s, e, d) ==
    IF s.err # NoErr THEN s
    ELSE IF ~Has(s.activeComponents, e) THEN s
    ELSE IF ~Has(s.activeComponents[e], d) THEN s
    ELSE
    LET existingComponent == s.activeComponents[e][d]
    IN  RemoveIdMappings(Destroy(s, existingComponent), e, existingComponent, IdList(d))

RemoveComponent(s, e, d) ==
    IF s.err # NoErr THEN s
    ELSE IF ~Has(s.activeComponents, e) THEN s
    ELSE IF ~Has(s.activeComponents[e], d) THEN s
    ELSE
    LET existingComponent == s.activeComponents[e][d]
    IN  PruneActive(
            RemoveIdMappings([Destroy(s, existingComponent) EXCEPT
                                 !.activeComponents[e] = Del(@, d)],
                             e, existingComponent, IdList(d)),
            e)

\* waitForComponent: the executor of the promise `r`, once getComponent has
\* returned (in s1.ret)
Await(s1, e, d, r) ==
        IF s1.err # NoErr THEN s1
        ELSE IF s1.ret # Absent
        THEN [s1 EXCEPT !.promises[r] = [status |-> "resolved", value |-> s1.ret,
                                          e |-> e, d |-> d],
                        !.resolved = Append(@, <<r, s1.ret>>)]
        ELSE
        LET instanceWaiters == Get(s1.componentWaiters, e, EmptyMap)
            waiting == Get(instanceWaiters, d, {}) \cup {r}
        IN  [s1 EXCEPT !.componentWaiters = Put(@, e, Put(instanceWaiters, d, waiting)),
                       !.promises[r] = [status |-> "pending", value |-> Absent,
                                         e |-> e, d |-> d]]

WaitForComponent(s, e, d, r) == Await(GetComponent(s, e, d), e, d, r)

\* fault: onCancel that removes the resolver and leaves the emptied collections
CancelWaitKeepsEmpty(s, r) ==
    IF s.promises[r].status # "pending" THEN s
    ELSE [s EXCEPT !.promises[r].status = "cancelled",
                   !.componentWaiters[s.promises[r].e][s.promises[r].d] = @ \ {r}]

\* promise:cancel(): the onCancel hook runs only while the promise is pending
CancelWait(s, r) ==
    IF s.promises[r].status # "pending" THEN s
    ELSE
    LET e == s.promises[r].e
        d == s.promises[r].d
        waiting == s.componentWaiters[e][d] \ {r}
        instanceWaiters ==
            IF waiting = {} THEN Del(s.componentWaiters[e], d)
            ELSE Put(s.componentWaiters[e], d, waiting)
    IN  [s EXCEPT !.promises[r].status = "cancelled",
                  !.componentWaiters =
                      IF DOMAIN instanceWaiters = {} THEN Del(@, e)
                      ELSE Put(@, e, instanceWaiters)]

----------------------------------------------------------------------------
(* The handlers Components.onStart connects, and the scheduler's tasks *)

\* a handler's error ends its own thread only: what it did so far stays done
Catch(s) ==
    IF s.err = NoErr THEN s
    ELSE [s EXCEPT !.err = NoErr, !.caught = @ \cup {s.err}]

\* instanceAdded of onStart, for the tag-bound class d
InstanceAdded(s, d, e) ==
    LET isWhitelisted ==
            IF AncestorWhitelist(d) = {} THEN Nil
            ELSE IF s.place[e] \in AncestorWhitelist(d) THEN "true" ELSE "false"
        isBlacklisted == s.place[e] \in AncestorBlacklist(d)
    IN  IF ~Predicate(d, e) THEN s
        ELSE IF isWhitelisted = "false" THEN s
        ELSE IF isBlacklisted /\ isWhitelisted = Nil THEN s
        ELSE SetHasTag(TrackInstance(s, d, e, <<"reg", d>>), d, e, TRUE)

\* fault: the handler leaves the detaching to the listener it has just untracked
InstanceRemovedNoDetach(s, d, e) ==
    SetHasTag(UntrackInstance(s, d, e, <<"reg", d>>), d, e, FALSE)

\* the handler of GetInstanceRemovedSignal(config.tag)
\* fault: the marker-removed handler detaches its own class first
InstanceRemovedDetachesFirst(s, d, e) ==
    SetHasTag(UntrackInstance(RemoveComponent(s, e, d), d, e, <<"reg", d>>), d, e, FALSE)

InstanceRemoved(s, d, e) ==
    RemoveComponent(
        SetHasTag(UntrackInstance(s, d, e, <<"reg", d>>), d, e, FALSE), e, d)

\* the classes bound to tag t, in the order their handlers were connected
BoundTo(t) == SetToSeq({d \in Defs : Tag(d) = t})

RECURSIVE SignalTag(_, _, _, _)
\* GetInstanceAddedSignal(t) / GetInstanceRemovedSignal(t) fires for entity e
SignalTag(s, ds, e, added) ==
    IF ds = <<>> THEN s
    ELSE SignalTag(
             Catch(IF added THEN InstanceAdded(s, Head(ds), e)
                   ELSE InstanceRemoved(s, Head(ds), e)),
             Tail(ds), e, added)

\* CollectionService:RemoveTag(e, t) called from inside a handler
Untag(s, e, t) ==
    IF s.err # NoErr THEN s
    ELSE IF s.place[e] # Nil
    THEN SignalTag([s EXCEPT !.tags[e] = @ \ {t}], BoundTo(t), e, FALSE)
    ELSE [s EXCEPT !.tags[e] = @ \ {t}]

\* fault: the error of instanceAdded is raised again in the loop
SafeCallRethrows(s, d, e) == s

\* safeCall around instanceAdded: an error ends the spawned thread and is printed
SafeCall(s, d, e) ==
    IF s.err = NoErr THEN s
    ELSE [s EXCEPT !.err = NoErr,
                   !.caught = @ \cup {s.err},
                   !.warns = @ \cup {<<"instantiate", d, e>>}]

RECURSIVE StartTagged(_, _, _)
\* onStart: the loop over CollectionService.GetTagged(config.tag), which holds the
\* tagged instances of the DataModel; es is the order in which it lists them
StartTagged(s, d, es) ==
    IF es = <<>> THEN s
    ELSE StartTagged(
             IF Tag(d) \in s.tags[Head(es)] /\ s.place[Head(es)] # Nil
             THEN SafeCall(InstanceAdded(s, d, Head(es)), d, Head(es))
             ELSE s,
             d, Tail(es))

RECURSIVE StartComponents(_, _, _)
\* onStart: the loop over this.components, in the order ds
StartComponents(s, ds, es) ==
    IF ds = <<>> THEN s
    ELSE StartComponents(
             IF Tag(Head(ds)) # Nil THEN StartTagged(s, Head(ds), es) ELSE s,
             Tail(ds), es)

RECURSIVE SignalTags(_, _, _, _)
\* the instance enters or leaves the DataModel: one signal per tag it carries
SignalTags(s, ts, e, added) ==
    IF ts = <<>> THEN s
    ELSE SignalTags(
             IF Head(ts) \in s.tags[e] THEN SignalTag(s, BoundTo(Head(ts)), e, added) ELSE s,
             Tail(ts), e, added)

\* the callback task.defer runs for a connection of kind `kind`, on a tracked entity
DeferredLive(s, d, e) ==
    LET kind == s.instances[d][e].task
        s1 == [s EXCEPT !.instances[d][e].task = "none"]
    IN  IF kind = "added" /\ TypeGuard(s, e)
        THEN Mark([s1 EXCEPT !.instances[d][e] = connectRemoving(@)],
                  d, e, TypeGuardMarker, FALSE)
        ELSE IF kind = "removing" /\ ~TypeGuard(s, e)
        THEN Mark([s1 EXCEPT !.instances[d][e] = connectAdded(@)],
                  d, e, TypeGuardMarker, TRUE)
        ELSE s1

\* updateListeners on an InstanceTracker that has left `instances`: it has no
\* listener any more
UpdateOrphan(tracker) ==
    LET isQualified == tracker.unmetCriteria = {}
    IN  IF isQualified = tracker.isQualified THEN tracker
        ELSE [tracker EXCEPT !.isQualified = isQualified,
                             !.timer = IF isQualified /\ @ = "armed" THEN "none" ELSE @]

\* the same callback, on an InstanceTracker that has left `instances`
DeferredOrphan(s, tracker, e) ==
    LET kind == tracker.task
        t1 == [tracker EXCEPT !.task = "none"]
    IN  IF kind = "added" /\ TypeGuard(s, e)
        THEN UpdateOrphan([connectRemoving(t1) EXCEPT !.unmetCriteria = @ \ {TypeGuardMarker}])
        ELSE IF kind = "removing" /\ ~TypeGuard(s, e)
        THEN UpdateOrphan([connectAdded(t1) EXCEPT !.unmetCriteria = @ \cup {TypeGuardMarker}])
        ELSE t1

\* a DescendantAdded / DescendantRemoving connection fires: it defers one task
\* unless its isScheduled flag is set
\* fault: the handler of the connection defers a task whatever isScheduled is
SchedulesWhilePending(tracker, kind) == kind \in tracker.conn

\* the handler of a live connection finds its isScheduled flag unset
Schedules(tracker, kind) == kind \in tracker.conn /\ tracker.task = "none"

Schedule(tracker, kind) ==
    IF Schedules(tracker, kind) THEN [tracker EXCEPT !.task = kind] ELSE tracker

FireDescendant(s, e, kind) ==
    [s EXCEPT !.instances = [d \in Defs |->
                                [x \in DOMAIN @[d] |->
                                    IF x = e THEN Schedule(@[d][x], kind) ELSE @[d][x]]],
              !.scheduled = @ \o SetToSeq({<<d, e>> : d \in {x \in Defs :
                                              /\ Has(s.instances[x], e)
                                              /\ Schedules(s.instances[x][e], kind)}}),
              !.orphans = {IF o.e = e THEN [o EXCEPT !.t = Schedule(@, kind)] ELSE o : o \in @}]

\* the warning the delayed thread of setupTracker prints
Warn(s, d, e, tracker) ==
    [s EXCEPT !.warns = @ \cup {<<"timeout", d, e, tracker.unmetCriteria>>}]

----------------------------------------------------------------------------
(* The state machine.  Each On... operator is one handler run to its end from *)
(* the current state: the record it yields holds the state the handler leaves *)
(* and what it returned (ret), raised (err) and invoked (calls, ...).         *)

Cur(ord, kord) ==
    [tags |-> tags, shape |-> shape, place |-> place, attrs |-> attrs,
     activeComponents |-> activeComponents,
     activeInheritedComponents |-> activeInheritedComponents,
     reverseComponentsMapping |-> reverseComponentsMapping,
     componentWaiters |-> componentWaiters, promises |-> promises,
     instances |-> instances, orphans |-> orphans, followOrphans |-> followOrphans,
     comps |-> comps, started |-> started,
     ord |-> ord, kord |-> kord,
     err |-> NoErr, ret |-> Absent, caught |-> {},
     calls |-> <<>>, fired |-> <<>>, warns |-> {}, resolved |-> <<>>,
     allocated |-> <<>>, destroys |-> <<>>, lookups |-> <<>>, scheduled |-> <<>>,
     cleanups |-> <<>>]

\* the state as a record, for the handlers in which no order is left open
ListenerOrder == <<"reg", "usr", "dep">>
KeyOrder == <<"ammo", "power">>
Now == Cur(ListenerOrder, KeyOrder)

NoPromise == [status |-> "none", value |-> Absent, e |-> Nil, d |-> Nil]

Init ==
    /\ tags = [e \in Entities |-> {}]
    /\ shape = [e \in Entities |-> FALSE]
    /\ place = [e \in Entities |-> "Workspace"]
    /\ attrs = [e \in Entities |-> InitialAttributes(e)]
    /\ activeComponents = EmptyMap
    /\ activeInheritedComponents = EmptyMap
    /\ reverseComponentsMapping = EmptyMap
    /\ componentWaiters = EmptyMap
    /\ promises = [r \in Resolvers |-> NoPromise]
    /\ instances = [d \in Defs |-> EmptyMap]
    /\ orphans = {}
    /\ followOrphans \in BOOLEAN
    /\ comps = EmptyMap
    /\ started = TRUE

\* a destroyed component is garbage: how often it was destroyed is all that is
\* kept of it
Released(c) ==
    IF c.destroyed = 0 THEN c
    ELSE [c EXCEPT !.attributes = EmptyMap, !.constructed = 0, !.started = FALSE]

\* the state a handler leaves becomes the next state
Commit(s) ==
    /\ tags' = s.tags
    /\ shape' = s.shape
    /\ place' = s.place
    /\ attrs' = s.attrs
    /\ activeComponents' = s.activeComponents
    /\ activeInheritedComponents' = s.activeInheritedComponents
    /\ reverseComponentsMapping' = s.reverseComponentsMapping
    /\ componentWaiters' = s.componentWaiters
    /\ promises' = s.promises
    /\ instances' = s.instances
    /\ Cardinality({o \in s.orphans : IsHeld(o.t)}) <= MaxOrphans
    /\ orphans' = {o \in s.orphans : IsHeld(o.t)}
    /\ followOrphans' = followOrphans
    /\ comps' = [c \in DOMAIN s.comps |-> Released(s.comps[c])]
    /\ started' = s.started

\* CollectionService:AddTag(e, t)
OnAddTag(e, t, ord) ==
    LET s == [Cur(ord, KeyOrder) EXCEPT !.tags[e] = @ \cup {t}]
    IN  IF place[e] # Nil THEN SignalTag(s, BoundTo(t), e, TRUE) ELSE s

AddTag(e, t) ==
    /\ t \notin tags[e]
    /\ \E ord \in ListenerOrders : Commit(OnAddTag(e, t, ord))

\* CollectionService:RemoveTag(e, t)
OnRemoveTag(e, t, ord) ==
    LET s == [Cur(ord, KeyOrder) EXCEPT !.tags[e] = @ \ {t}]
    IN  IF place[e] # Nil THEN SignalTag(s, BoundTo(t), e, FALSE) ELSE s

RemoveTag(e, t) ==
    /\ t \in tags[e]
    /\ \E ord \in ListenerOrders : Commit(OnRemoveTag(e, t, ord))

\* instance.Parent = p
OnReparent(e, p, ord, tord) ==
    LET s == [Cur(ord, KeyOrder) EXCEPT !.place[e] = p]
    IN  IF place[e] = Nil THEN SignalTags(s, tord, e, TRUE)
        ELSE IF p = Nil THEN SignalTags(s, tord, e, FALSE)
        ELSE s

Reparent(e, p) ==
    /\ p # place[e]
    /\ \E ord \in ListenerOrders, tord \in TagOrders : Commit(OnReparent(e, p, ord, tord))

\* a descendant is added under e; `completes` says the tree now passes the guard
OnDescendantAdded(e, completes) ==
    FireDescendant([Now EXCEPT !.shape[e] = @ \/ completes], e, "added")

DescendantAdded(e, completes) ==
    /\ completes => ~shape[e]
    /\ Commit(OnDescendantAdded(e, completes))

\* a descendant of e is removed; `breaks` says the tree no longer passes the guard
OnDescendantRemoving(e, breaks) ==
    FireDescendant([Now EXCEPT !.shape[e] = @ /\ ~breaks], e, "removing")

DescendantRemoving(e, breaks) ==
    /\ breaks => shape[e]
    /\ Commit(OnDescendantRemoving(e, breaks))

\* the scheduler resumes the task deferred for the tracked entity e of tracker d
OnDeferred(d, e, ord) == Catch(DeferredLive(Cur(ord, KeyOrder), d, e))

HasDeferred(d, e) == Has(instances[d], e) /\ instances[d][e].task # "none"

RunDeferred(d, e) ==
    /\ HasDeferred(d, e)
    /\ \E ord \in ListenerOrders : Commit(OnDeferred(d, e, ord))

\* the scheduler resumes a task deferred for an InstanceTracker since untracked
OnDeferredOrphan(o) ==
    [Now EXCEPT !.orphans = (@ \ {o}) \cup {[o EXCEPT !.t = DeferredOrphan(Now, o.t, o.e)]}]

RunDeferredOrphan(o) ==
    /\ o \in orphans
    /\ o.t.task # "none"
    /\ Commit(OnDeferredOrphan(o))

\* the delayed warning thread of a tracked entity runs
OnWarning(d, e) ==
    Warn([Now EXCEPT !.instances[d][e].timer = "none"], d, e, instances[d][e])

WarningFires(d, e) ==
    /\ Has(instances[d], e)
    /\ instances[d][e].timer = "armed"
    /\ Commit(OnWarning(d, e))

\* the delayed warning thread of an InstanceTracker since untracked runs
OnWarningOrphan(o) ==
    Warn([Now EXCEPT !.orphans = (@ \ {o}) \cup {[o EXCEPT !.t.timer = "none"]}],
         o.d, o.e, o.t)

WarningFiresOrphan(o) ==
    /\ o \in orphans
    /\ o.t.timer = "armed"
    /\ Commit(OnWarningOrphan(o))

\* instance:SetAttribute(key, value) by anyone but the registry
ChangeAttribute(e, key, value) ==
    /\ attrs[e][key] # value
    /\ Commit(SetAttribute(Now, e, key, value))

\* components.addComponent(e, d) / addComponent(e, d, true); like every call of the
\* public interface it takes an instance that exists, wherever it is
OnAttach(e, d, skipInstanceCheck, kord) ==
    AddComponent(Cur(ListenerOrder, kord), e, d, skipInstanceCheck)

Attach(e, d, skipInstanceCheck) ==
    /\ place[e] \in Places
    /\ \E kord \in KeyOrders : Commit(OnAttach(e, d, skipInstanceCheck, kord))

\* components.removeComponent(e, d)
OnDetach(e, d) == RemoveComponent(Now, e, d)

Detach(e, d) ==
    /\ place[e] \in Places
    /\ Commit(OnDetach(e, d))

\* components.getComponent(e, d)
OnGet(e, d) == GetComponent(Now, e, d)

Lookup(e, d) ==
    /\ place[e] \in Places
    /\ Commit(OnGet(e, d))

\* components.waitForComponent(e, d), returning the promise r
WaitFor(e, d, r) ==
    /\ promises[r].status = "none"
    /\ Commit(WaitForComponent(Now, e, d, r))

\* promise:cancel()
Cancel(r) ==
    /\ promises[r].status # "none"
    /\ Commit(CancelWait(Now, r))

\* tracker.trackInstance(e, listener) with a listener of the caller's own
OnTrack(d, e) == TrackInstance(Now, d, e, <<"usr", d>>)

Track(d, e) ==
    /\ place[e] \in Places
    /\ Commit(OnTrack(d, e))

\* tracker.untrackInstance(e, listener) with that listener
OnUntrack(d, e) == UntrackInstance(Now, d, e, <<"usr", d>>)

Untrack(d, e) ==
    /\ place[e] \in Places
    /\ Commit(OnUntrack(d, e))

Next ==
    \/ \E e \in Entities, t \in TagNames : AddTag(e, t)
    \/ \E e \in Entities, t \in TagNames : RemoveTag(e, t)
    \/ \E e \in Entities, p \in Places : Reparent(e, p)
    \/ \E e \in Entities, b \in BOOLEAN : DescendantAdded(e, b)
    \/ \E e \in Entities, b \in BOOLEAN : DescendantRemoving(e, b)
    \/ \E d \in Defs, e \in Entities : RunDeferred(d, e)
    \/ \E o \in orphans : RunDeferredOrphan(o)
    \/ \E d \in Defs, e \in Entities : WarningFires(d, e)
    \/ \E o \in orphans : WarningFiresOrphan(o)
    \/ \E e \in Entities, k \in AttrNames, v \in AttrValues : ChangeAttribute(e, k, v)
    \/ \E e \in Entities, d \in Specifiers, skip \in BOOLEAN : Attach(e, d, skip)
    \/ \E e \in Entities, d \in Specifiers : Detach(e, d)
    \/ \E e \in Entities, d \in Specifiers : Lookup(e, d)
    \/ \E e \in Entities, d \in Defs, r \in Resolvers : WaitFor(e, d, r)
    \/ \E r \in Resolvers : Cancel(r)
    \/ \E d \in Defs, e \in Entities : Track(d, e)
    \/ \E d \in Defs, e \in Entities : Untrack(d, e)

Spec == Init /\ [][Next]_vars

----------------------------------------------------------------------------
(* The tracker on one entity: qualification of a single entity under tag,     *)
(* tree and dependency changes, with callers' own listeners.  Trackers keep   *)
(* no state across entities, so one entity shows all a tracker can do.        *)

TrackerEntities == {"e1"}

\* the trackers on which a caller registers a listener of its own
UsrDefs == {"Turret"}

InitTracker == Init /\ ~followOrphans

NextTracker ==
    \/ \E e \in TrackerEntities, t \in TagNames : AddTag(e, t)
    \/ \E e \in TrackerEntities, t \in TagNames : RemoveTag(e, t)
    \/ \E e \in TrackerEntities, b \in BOOLEAN : DescendantAdded(e, b)
    \/ \E e \in TrackerEntities, b \in BOOLEAN : DescendantRemoving(e, b)
    \/ \E d \in Defs, e \in TrackerEntities : RunDeferred(d, e)
    \/ \E d \in Defs, e \in TrackerEntities : WarningFires(d, e)
    \/ \E e \in TrackerEntities, v \in AttrValues : ChangeAttribute(e, "power", v)
    \/ \E e \in TrackerEntities : Attach(e, "Base", FALSE)
    \/ \E e \in TrackerEntities : Detach(e, "Base")
    \/ \E d \in UsrDefs, e \in TrackerEntities : Track(d, e)
    \/ \E d \in UsrDefs, e \in TrackerEntities : Untrack(d, e)

SpecTracker == InitTracker /\ [][NextTracker]_vars

----------------------------------------------------------------------------
(* The registry on one entity: every registry operation, while the entity's   *)
(* tag, tree and attributes change and the tag drives the automatic lifecycle *)

RegistryEntities == {"e1"}
RegistryTags == {"living"}

NextRegistry ==
    \/ \E e \in RegistryEntities, t \in RegistryTags : AddTag(e, t)
    \/ \E e \in RegistryEntities, t \in RegistryTags : RemoveTag(e, t)
    \/ \E e \in RegistryEntities, b \in BOOLEAN : DescendantAdded(e, b)
    \/ \E e \in RegistryEntities, b \in BOOLEAN : DescendantRemoving(e, b)
    \/ \E d \in Defs, e \in RegistryEntities : RunDeferred(d, e)
    \/ \E e \in RegistryEntities, v \in AttrValues : ChangeAttribute(e, "power", v)
    \/ \E e \in RegistryEntities, d \in Specifiers, skip \in BOOLEAN : Attach(e, d, skip)
    \/ \E e \in RegistryEntities, d \in Specifiers : Detach(e, d)
    \/ \E e \in RegistryEntities, d \in Specifiers : Lookup(e, d)

SpecRegistry == InitTracker /\ [][NextRegistry]_vars

----------------------------------------------------------------------------
(* The start of the registry: entities are tagged, shaped and given attributes *)
(* before Components.onStart runs, and Base is attached by hand to some; tags  *)
(* change once onStart has run.                                               *)

StartEntities == {"e1", "e2"}

\* the orders in which onStart can visit the classes and GetTagged can list the
\* instances
ClassOrders == {<<"Base", "Health", "Turret">>, <<"Turret", "Health", "Base">>}
EntityOrders == {<<"e1", "e2">>, <<"e2", "e1">>}

InitStartup ==
    /\ tags \in [Entities -> SUBSET TagNames]
    /\ shape \in [Entities -> BOOLEAN]
    /\ place = [e \in Entities |-> "Workspace"]
    /\ attrs \in {[e \in Entities |-> [k \in AttrNames |-> IF k = "power" THEN pw[e] ELSE Nil]] :
                    pw \in [Entities -> {Nil, "3"}]}
    /\ activeComponents = EmptyMap
    /\ activeInheritedComponents = EmptyMap
    /\ reverseComponentsMapping = EmptyMap
    /\ componentWaiters = EmptyMap
    /\ promises = [r \in Resolvers |-> NoPromise]
    /\ instances = [d \in Defs |-> EmptyMap]
    /\ orphans = {}
    /\ followOrphans = FALSE
    /\ comps = EmptyMap
    /\ started = FALSE

\* Components.onStart
OnStart(ds, es, ord, kord) ==
    StartComponents([Cur(ord, kord) EXCEPT !.started = TRUE], ds, es)

Start ==
    /\ ~started
    /\ \E ds \in ClassOrders, es \in EntityOrders, ord \in ListenerOrders, kord \in KeyOrders :
           Commit(OnStart(ds, es, ord, kord))

NextStartup ==
    \/ Start
    \/ \E e \in StartEntities : ~started /\ Attach(e, "Base", TRUE)
    \/ \E e \in StartEntities, t \in TagNames : started /\ AddTag(e, t)
    \/ \E e \in StartEntities, t \in TagNames : started /\ RemoveTag(e, t)

SpecStartup == InitStartup /\ [][NextStartup]_vars

----------------------------------------------------------------------------
(* The attributes of one entity: both guarded attributes change while the     *)
(* classes are attached and detached by hand.                                 *)

AttributeEntities == {"e1"}

NextAttributes ==
    \/ \E e \in AttributeEntities, key \in AttrNames, v \in AttrValues :
           ChangeAttribute(e, key, v)
    \/ \E e \in AttributeEntities, d \in Defs, skip \in BOOLEAN : Attach(e, d, skip)
    \/ \E e \in AttributeEntities, d \in Defs : Detach(e, d)

SpecAttributes == InitTracker /\ [][NextAttributes]_vars

----------------------------------------------------------------------------
(* The identifier indices across entities: components are attached to and     *)
(* detached from two entities that share identifiers (OnTick, Health)         *)

IndexDefs(e) == IF e = "e1" THEN {"Health", "Turret"} ELSE {"Base", "Health"}

NextIndices ==
    \/ \E e \in Entities : \E d \in IndexDefs(e), skip \in BOOLEAN : Attach(e, d, skip)
    \/ \E e \in Entities : \E d \in IndexDefs(e) : Detach(e, d)
    \/ \E e \in Entities, t \in RegistryTags : AddTag(e, t)
    \/ \E e \in Entities, t \in RegistryTags : RemoveTag(e, t)

SpecIndices == InitTracker /\ [][NextIndices]_vars

----------------------------------------------------------------------------
(* The waiters on one entity: promises of waitForComponent are issued and     *)
(* cancelled while components are attached by hand, by the tag and eagerly    *)

WaiterEntities == {"e1"}

\* the classes that are waited for, attached and detached: Health, which the
\* tag "living" attaches, and its dependency Base
WaiterDefs == {"Base", "Health"}

NextWaiters ==
    \/ \E e \in WaiterEntities, d \in WaiterDefs, r \in Resolvers : WaitFor(e, d, r)
    \/ \E r \in Resolvers : Cancel(r)
    \/ \E e \in WaiterEntities, d \in WaiterDefs, skip \in BOOLEAN : Attach(e, d, skip)
    \/ \E e \in WaiterEntities, d \in WaiterDefs : Detach(e, d)
    \/ \E e \in WaiterEntities, t \in RegistryTags : AddTag(e, t)
    \/ \E e \in WaiterEntities, t \in RegistryTags : RemoveTag(e, t)
    \/ \E e \in WaiterEntities, b \in BOOLEAN : DescendantAdded(e, b)
    \/ \E e \in WaiterEntities, b \in BOOLEAN : DescendantRemoving(e, b)
    \/ \E d \in Defs, e \in WaiterEntities : RunDeferred(d, e)
    \/ \E e \in WaiterEntities, v \in {Nil, "3"} : ChangeAttribute(e, "power", v)

SpecWaiters == InitTracker /\ [][NextWaiters]_vars

----------------------------------------------------------------------------
(* Eager creation on one entity: getComponent is called while the entity's     *)
(* tag, tree, parent and attributes change and components are detached        *)

EagerEntities == {"e1"}

NextEager ==
    \/ \E e \in EagerEntities, t \in RegistryTags : AddTag(e, t)
    \/ \E e \in EagerEntities, t \in RegistryTags : RemoveTag(e, t)
    \/ \E e \in EagerEntities, p \in Places : Reparent(e, p)
    \/ \E e \in EagerEntities, b \in BOOLEAN : DescendantAdded(e, b)
    \/ \E e \in EagerEntities, b \in BOOLEAN : DescendantRemoving(e, b)
    \/ \E d \in Defs, e \in EagerEntities : RunDeferred(d, e)
    \/ \E e \in EagerEntities, v \in {Nil, "3"} : ChangeAttribute(e, "power", v)
    \/ \E e \in EagerEntities : Attach(e, "Base", FALSE)
    \/ \E e \in EagerEntities, d \in {"Base", "Health"} : Detach(e, d)
    \/ \E e \in EagerEntities, d \in Defs : Lookup(e, d)

SpecEager == InitTracker /\ [][NextEager]_vars

----------------------------------------------------------------------------
(* The trackers on one entity with what outlives them: the InstanceTracker of   *)
(* an untracked entity is followed while its warning thread or its deferred     *)
(* task is pending or a connection of its is live                               *)

OrphanEntities == {"e1"}

InitOrphans == Init /\ followOrphans

NextOrphans ==
    \/ \E e \in OrphanEntities, t \in TagNames : AddTag(e, t)
    \/ \E e \in OrphanEntities, t \in TagNames : RemoveTag(e, t)
    \/ \E e \in OrphanEntities, b \in BOOLEAN : DescendantAdded(e, b)
    \/ \E e \in OrphanEntities, b \in BOOLEAN : DescendantRemoving(e, b)
    \/ \E d \in Defs, e \in OrphanEntities : RunDeferred(d, e)
    \/ \E o \in orphans : RunDeferredOrphan(o)
    \/ \E d \in Defs, e \in OrphanEntities : WarningFires(d, e)
    \/ \E o \in orphans : WarningFiresOrphan(o)

SpecOrphans == InitOrphans /\ [][NextOrphans]_vars

----------------------------------------------------------------------------
(* Properties.  A property of a handler is stated on the handler's run from   *)
(* each reachable state: P(On...) for every input the handler accepts there.  *)

Attached(e, d) == Has(activeComponents, e) /\ Has(activeComponents[e], d)

AttachedIn(s, e, d) == Has(s.activeComponents, e) /\ Has(s.activeComponents[e], d)

Range(f) == {f[x] : x \in DOMAIN f}

\* the registry's three indices are what they were before the handler ran
SameIndices(s) ==
    /\ s.activeComponents = activeComponents
    /\ s.activeInheritedComponents = activeInheritedComponents
    /\ s.reverseComponentsMapping = reverseComponentsMapping

\* P of every handler run of NextTracker that is enabled in the current state
EveryTrackerRun(P(_)) ==
    /\ \A e \in TrackerEntities, t \in TagNames, ord \in ListenerOrders :
        /\ t \notin tags[e] => P(OnAddTag(e, t, ord))
        /\ t \in tags[e] => P(OnRemoveTag(e, t, ord))
    /\ \A e \in TrackerEntities, b \in BOOLEAN :
        /\ (b => ~shape[e]) => P(OnDescendantAdded(e, b))
        /\ (b => shape[e]) => P(OnDescendantRemoving(e, b))
    /\ \A d \in Defs, e \in TrackerEntities, ord \in ListenerOrders :
        HasDeferred(d, e) => P(OnDeferred(d, e, ord))
    /\ \A e \in TrackerEntities, v \in AttrValues : P(SetAttribute(Now, e, "power", v))
    /\ \A e \in TrackerEntities, kord \in KeyOrders : P(OnAttach(e, "Base", FALSE, kord))
    /\ \A e \in TrackerEntities : P(OnDetach(e, "Base"))
    /\ \A d \in UsrDefs, e \in TrackerEntities : P(OnTrack(d, e)) /\ P(OnUntrack(d, e))

\* P of every handler run of NextRegistry that is enabled in the current state
EveryRegistryRun(P(_)) ==
    /\ \A e \in RegistryEntities, t \in RegistryTags, ord \in ListenerOrders :
        /\ t \notin tags[e] => P(OnAddTag(e, t, ord))
        /\ t \in tags[e] => P(OnRemoveTag(e, t, ord))
    /\ \A e \in RegistryEntities, b \in BOOLEAN :
        /\ (b => ~shape[e]) => P(OnDescendantAdded(e, b))
        /\ (b => shape[e]) => P(OnDescendantRemoving(e, b))
    /\ \A d \in Defs, e \in RegistryEntities, ord \in ListenerOrders :
        HasDeferred(d, e) => P(OnDeferred(d, e, ord))
    /\ \A e \in RegistryEntities, v \in AttrValues : P(SetAttribute(Now, e, "power", v))
    /\ \A e \in RegistryEntities, d \in Specifiers, skip \in BOOLEAN, kord \in KeyOrders :
        P(OnAttach(e, d, skip, kord))
    /\ \A e \in RegistryEntities, d \in Specifiers : P(OnDetach(e, d)) /\ P(OnGet(e, d))

----------------------------------------------------------------------------
(* C1 *)

\* a handler takes an attached instance out of activeComponents, or puts another
\* in its place, only by tearing it down (removeComponent)
KeptUntilDetach(s) ==
    \A e \in RegistryEntities, d \in Defs :
        Attached(e, d) =>
            \/ AttachedIn(s, e, d) /\ s.activeComponents[e][d] = activeComponents[e][d]
            \/ activeComponents[e][d] \in Range(s.destroys)

\* C1: an attach that returns c leaves c attached; while c is attached every get
\* returns c and no handler but a detach takes c away or replaces it; and a get of
\* a definition that is not attached returns an instance only if the definition is
\* tag-bound and the entity qualifies per its tracker (eager creation), else absent.
C1_GetReturnsAttached ==
    /\ \A e \in RegistryEntities, d \in Specifiers :
        /\ \A skip \in BOOLEAN, kord \in KeyOrders :
            LET s == OnAttach(e, d, skip, kord)
            IN  s.err = NoErr => AttachedIn(s, e, d) /\ s.ret = s.activeComponents[e][d]
        /\ LET s == OnGet(e, d)
           IN  IF Attached(e, d)
               THEN s.err = NoErr /\ s.ret = activeComponents[e][d] /\ SameIndices(s)
               ELSE /\ s.err = NoErr /\ s.ret # Absent =>
                        /\ d \in Defs
                        /\ Tag(d) # Nil
                        /\ CheckInstance(Now, d, e)
                        /\ AttachedIn(s, e, d) /\ s.ret = s.activeComponents[e][d]
                    /\ s.err = NoErr /\ s.ret = Absent => SameIndices(s)
    /\ EveryRegistryRun(KeptUntilDetach)

\* a detached definition whose get returns absent, next to an attached one whose
\* get returns its constructed instance
C1_Witness ==
    \E e \in RegistryEntities, d1, d2 \in Defs :
        /\ Attached(e, d1)
        /\ comps[activeComponents[e][d1]].constructed = 1
        /\ OnGet(e, d1).ret = activeComponents[e][d1]
        /\ ~Attached(e, d2)
        /\ \E c \in DOMAIN comps : c[1] = e /\ c[2] = d2 /\ comps[c].destroyed = 1
        /\ OnGet(e, d2).ret = Absent

----------------------------------------------------------------------------
(* C2 *)

\* C2 (as the code has it): a second attach of an attached definition validates the
\* attributes and the instance guard again, so it either raises InvalidAttribute or
\* GuardRejected, or returns the identical instance; either way it allocates
\* nothing, runs no construction body and leaves the indices alone; an attach that
\* allocates and returns has run the construction body of its instance once, and
\* no instance is ever constructed twice.
C2_SecondAttachReturnsExisting ==
    /\ \A e \in RegistryEntities, d \in Defs, skip \in BOOLEAN, kord \in KeyOrders :
        LET s == OnAttach(e, d, skip, kord)
        IN  IF Attached(e, d)
            THEN LET c == activeComponents[e][d]
                 IN  /\ s.err \in {NoErr, "InvalidAttribute", "GuardRejected"}
                     /\ s.err = NoErr => s.ret = c
                     /\ s.allocated = <<>>
                     /\ s.comps[c].constructed = comps[c].constructed
                     /\ SameIndices(s)
            ELSE s.err = NoErr =>
                    /\ s.allocated # <<>>
                    /\ s.ret = s.allocated[1]
                    /\ s.comps[s.ret].constructed = 1
    /\ \A c \in DOMAIN comps : comps[c].constructed <= 1

\* a constructed Base is attached and the second attach returns it
C2_Witness ==
    \E e \in RegistryEntities :
        /\ Attached(e, "Base")
        /\ comps[activeComponents[e]["Base"]].constructed = 1
        /\ \E kord \in KeyOrders :
            LET s == OnAttach(e, "Base", FALSE, kord)
            IN  s.err = NoErr /\ s.ret = activeComponents[e]["Base"]

\* C2 as stated: whatever the entity's attributes and tree are, the second attach
\* returns the identical, once constructed instance.
C2_SecondAttachAlwaysReturns ==
    \A e \in RegistryEntities, d \in Defs, skip \in BOOLEAN, kord \in KeyOrders :
        Attached(e, d) /\ comps[activeComponents[e][d]].constructed = 1 =>
            LET s == OnAttach(e, d, skip, kord)
            IN  /\ s.err = NoErr
                /\ s.ret = activeComponents[e][d]
                /\ s.comps[s.ret].constructed = 1

----------------------------------------------------------------------------
(* C3 *)

\* every listener invocation of the run found every tracked entity coherent
InvokedCoherent(s) == \A i \in DOMAIN s.calls : s.calls[i].coherent

\* C3: between handlers, and at every listener invocation of a handler, the cached
\* isQualified of every tracked (D,E) equals `its set of unmet criteria is empty`.
C3_FlagIsUnmetEmpty ==
    /\ Coherent(Now)
    /\ EveryTrackerRun(InvokedCoherent)

\* a qualified and an unqualified tracked entity, and a deferred re-evaluation that
\* invokes two listeners
C3_Witness ==
    \E d \in Defs, e \in TrackerEntities, ord \in ListenerOrders :
        /\ HasDeferred(d, e)
        /\ Cardinality({i \in DOMAIN OnDeferred(d, e, ord).calls :
                            OnDeferred(d, e, ord).calls[i].kind = "update"}) >= 2
        /\ \E d1, d2 \in Defs :
            /\ Has(instances[d1], e) /\ instances[d1][e].unmetCriteria = {}
            /\ Has(instances[d2], e) /\ instances[d2][e].unmetCriteria # {}

----------------------------------------------------------------------------
(* C4 *)

\* the listener invocations updateListeners made in answer to the marker mutation
\* logged at i: those for the same tracked entity before its next mutation
Responses(log, i) ==
    {j \in (i + 1) .. Len(log) :
        /\ log[j].kind = "update" /\ log[j].d = log[i].d /\ log[j].e = log[i].e
        /\ \A k \in (i + 1) .. (j - 1) :
            ~(log[k].kind = "mark" /\ log[k].d = log[i].d /\ log[k].e = log[i].e)}

FlipNotifiesOnce(s) ==
    \A i \in DOMAIN s.calls :
        s.calls[i].kind = "mark" =>
            LET m == s.calls[i]
                R == Responses(s.calls, i)
            IN  IF m.flips
                THEN /\ \A l \in m.listeners :
                            Cardinality({j \in R : s.calls[j].l = l}) = 1
                     /\ \A j \in R : s.calls[j].l \in m.listeners
                                     /\ s.calls[j].value = m.value
                ELSE R = {}

\* C4: in every handler, a marker mutation of a tracked (D,E) that flips isQualified
\* is answered by one invocation of each registered listener with the new value,
\* and a mutation that leaves isQualified as it was by none.
C4_FlipNotifiesEachListenerOnce == EveryTrackerRun(FlipNotifiesOnce)

\* a deferred guard re-evaluation flips a tracked entity that has two listeners
C4_Witness ==
    \E d \in Defs, e \in TrackerEntities, ord \in ListenerOrders :
        /\ HasDeferred(d, e)
        /\ Cardinality(instances[d][e].listeners) >= 2
        /\ \E i \in DOMAIN OnDeferred(d, e, ord).calls :
            /\ OnDeferred(d, e, ord).calls[i].kind = "mark"
            /\ OnDeferred(d, e, ord).calls[i].d = d
            /\ OnDeferred(d, e, ord).calls[i].flips

----------------------------------------------------------------------------
(* C5 *)

\* the run flips the qualification of (d, e) from false to true
BecomesQualified(s, d, e) ==
    \E i \in DOMAIN s.calls :
        /\ s.calls[i].kind = "mark" /\ s.calls[i].d = d /\ s.calls[i].e = e
        /\ s.calls[i].flips /\ s.calls[i].value

DependencyPropagates(s) ==
    \A d1 \in Defs, e \in TrackerEntities :
        \A n \in 1 .. Len(componentDependencies(d1)) :
            LET d2 == componentDependencies(d1)[n]
            IN  /\ Has(instances[d1], e)
                /\ instances[d1][e].unmetCriteria = {d2}
                /\ BecomesQualified(s, d2, e)
                => \A l \in instances[d1][e].listeners :
                       Cardinality({j \in DOMAIN s.calls :
                                       /\ s.calls[j].kind = "update"
                                       /\ s.calls[j].d = d1 /\ s.calls[j].e = e
                                       /\ s.calls[j].l = l /\ s.calls[j].value}) = 1

\* C5: when the tracker of D1 depends on the tracker of D2, E is tracked by D1 with
\* the D2 marker its only unmet criterion, and a handler makes E qualify for D2,
\* that handler invokes each D1 listener for E exactly once with true.
C5_DependencyFlipPropagates == EveryTrackerRun(DependencyPropagates)

\* Turret waits for Health alone, and a handler makes the entity qualify for Health
C5_Witness ==
    \E e \in TrackerEntities, ord \in ListenerOrders :
        /\ Has(instances["Turret"], e)
        /\ instances["Turret"][e].unmetCriteria = {"Health"}
        /\ instances["Turret"][e].listeners # {}
        /\ HasDeferred("Health", e)
        /\ BecomesQualified(OnDeferred("Health", e, ord), "Health", e)

----------------------------------------------------------------------------
(* C6 *)

\* the identifiers of a definition: its own, its ancestor classes', its interfaces'
IdentifiersOf(d) ==
    {OwnIdentifier(getOrderedParents(d)[i]) : i \in 1 .. Len(getOrderedParents(d))}
    \cup Implements(d)

\* the instances attached to e whose definition has the identifier id
Filed(e, id) ==
    IF ~Has(activeComponents, e) THEN {}
    ELSE {activeComponents[e][d] :
            d \in {x \in DOMAIN activeComponents[e] : id \in IdentifiersOf(x)}}

\* C6: between handlers, for every entity E and identifier id, the bucket
\* inherited[E][id] holds exactly the instances attached to E whose definition has
\* id among its identifiers, and reverse[id] holds exactly the union of these
\* buckets over all entities; no index has a key that is not an identifier.
C6_IndicesMirrorActive ==
    /\ \A e \in Entities, id \in Identifiers : GetComponents(Now, e, id) = Filed(e, id)
    /\ \A id \in Identifiers :
        GetAllComponents(Now, id) = UNION {Filed(e, id) : e \in Entities}
    /\ DOMAIN reverseComponentsMapping \subseteq Identifiers
    /\ DOMAIN activeInheritedComponents \subseteq Entities
    /\ \A e \in DOMAIN activeInheritedComponents :
        DOMAIN activeInheritedComponents[e] \subseteq Identifiers

\* three instances of two entities are filed under OnTick, one under Weapon
C6_Witness ==
    /\ Cardinality(GetAllComponents(Now, "OnTick")) = 3
    /\ \A e \in Entities : GetComponents(Now, e, "OnTick") # {}
    /\ Cardinality(GetAllComponents(Now, "Weapon")) = 1

----------------------------------------------------------------------------
(* C7 *)

\* C7: between handlers no index stores an empty map or an empty set, an entity has
\* an entry in activeComponents iff it has one in activeInheritedComponents iff a
\* component is attached to it, and the detach of an entity's last component leaves
\* no entry and no instance of that entity in any index.
C7_NoEmptyCollections ==
    /\ \A e \in DOMAIN activeComponents : DOMAIN activeComponents[e] # {}
    /\ \A e \in DOMAIN activeInheritedComponents :
        /\ DOMAIN activeInheritedComponents[e] # {}
        /\ \A id \in DOMAIN activeInheritedComponents[e] :
            activeInheritedComponents[e][id] # {}
    /\ \A id \in DOMAIN reverseComponentsMapping : reverseComponentsMapping[id] # {}
    /\ DOMAIN activeComponents = DOMAIN activeInheritedComponents
    /\ \A e \in Entities, d \in Defs :
        Attached(e, d) /\ DOMAIN activeComponents[e] = {d} =>
            LET s == OnDetach(e, d)
            IN  /\ ~Has(s.activeComponents, e)
                /\ ~Has(s.activeInheritedComponents, e)
                /\ \A id \in DOMAIN s.reverseComponentsMapping :
                    \A c \in s.reverseComponentsMapping[id] : c[1] # e

\* an entity whose components have all been detached, next to one with components
C7_Witness ==
    \E e1, e2 \in Entities :
        /\ ~Has(activeComponents, e1)
        /\ \E c \in DOMAIN comps : c[1] = e1 /\ comps[c].destroyed = 1
        /\ Has(activeComponents, e2)
        /\ Cardinality(DOMAIN activeComponents[e2]) = 2

----------------------------------------------------------------------------
(* C8 *)

RECURSIVE Dropped(_, _, _)
\* the trackers that lose their last listener for e when l leaves tracker d
Dropped(d, e, l) ==
    IF Has(instances[d], e) /\ instances[d][e].listeners = {l}
    THEN {d} \cup UNION {Dropped(componentDependencies(d)[n], e, <<"dep", d>>) :
                            n \in 1 .. Len(componentDependencies(d))}
    ELSE {}

\* C8: when untrackInstance takes the last listener (the registry's or a caller's)
\* of a tracked (D,E), tracker D drops E, and so does, transitively, every
\* dependency tracker whose only listener for E was the one D had installed; every
\* other tracker keeps its state for E, less the listeners of the dropped trackers.
C8_UntrackLastDropsState ==
    \A d \in Defs, e \in TrackerEntities : \A l \in {<<"usr", d>>, <<"reg", d>>} :
        Has(instances[d], e) /\ instances[d][e].listeners = {l} =>
            LET s == UntrackInstance(Now, d, e, l)
                gone == Dropped(d, e, l)
            IN  /\ s.err = NoErr
                /\ \A x \in Defs :
                    IF x \in gone THEN ~Has(s.instances[x], e)
                    ELSE Has(instances[x], e) =>
                            /\ Has(s.instances[x], e)
                            /\ s.instances[x][e] =
                                   [instances[x][e] EXCEPT
                                       !.listeners = @ \ {<<"dep", p>> : p \in gone}]

\* a caller's listener is the last of Turret, whose dependency Health is tracked on
\* its behalf alone, while Base is also held by another listener
C8_Witness ==
    \E e \in TrackerEntities :
        /\ Has(instances["Turret"], e)
        /\ instances["Turret"][e].listeners = {<<"usr", "Turret">>}
        /\ Has(instances["Health"], e)
        /\ instances["Health"][e].listeners = {<<"dep", "Turret">>}
        /\ Has(instances["Base"], e)
        /\ ~Has(OnUntrack("Turret", e).instances["Health"], e)

----------------------------------------------------------------------------
(* C9 *)

AttachErrors == {"UnknownDefinition", "InvalidAttribute", "GuardRejected",
                 "UnresolvedDependency"}

\* C9: an attach that raises one of the four attach errors leaves activeComponents,
\* activeInheritedComponents and reverseComponentsMapping as they were.
C9_FailedAttachLeavesIndices ==
    \A e \in RegistryEntities, d \in Specifiers, skip \in BOOLEAN, kord \in KeyOrders :
        LET s == OnAttach(e, d, skip, kord)
        IN  s.err \in AttachErrors => SameIndices(s)

\* an instance whose construction body never ran is attached
C9_Witness ==
    \E e \in RegistryEntities, d \in Defs :
        /\ Attached(e, d)
        /\ comps[activeComponents[e][d]].constructed = 0

----------------------------------------------------------------------------
(* C10 *)

\* no instance is torn down twice by one handler
TornDownOnce(s) ==
    \A i, j \in DOMAIN s.destroys : s.destroys[i] = s.destroys[j] => i = j

\* C10: a detach of a definition that is not attached raises nothing, tears nothing
\* down and changes no state; no handler tears an instance down twice; and between
\* handlers every instance ever created is either attached and not torn down, or
\* no longer attached and torn down exactly once.
C10_DetachOnceOnly ==
    /\ \A e \in RegistryEntities, d \in Specifiers :
        ~Attached(e, d) =>
            LET s == OnDetach(e, d)
            IN  /\ s.err = NoErr
                /\ s.destroys = <<>>
                /\ SameIndices(s)
                /\ s.comps = comps
                /\ s.instances = instances
                /\ s.componentWaiters = componentWaiters
    /\ EveryRegistryRun(TornDownOnce)
    /\ \A c \in DOMAIN comps :
        IF Attached(c[1], c[2]) /\ activeComponents[c[1]][c[2]] = c
        THEN comps[c].destroyed = 0
        ELSE comps[c].destroyed = 1

\* an instance was torn down by the removal of its tag, and a detach finds nothing
C10_Witness ==
    \E e \in RegistryEntities :
        /\ ~Attached(e, "Health")
        /\ \E c \in DOMAIN comps : c[1] = e /\ c[2] = "Health" /\ comps[c].destroyed = 1
        /\ Has(instances["Health"], e) = FALSE
        /\ OnDetach(e, "Health").destroys = <<>>

----------------------------------------------------------------------------
(* C11 *)

\* P of every handler run of NextWaiters that is enabled in the current state
EveryWaitersRun(P(_)) ==
    /\ \A e \in WaiterEntities, d \in WaiterDefs, r \in Resolvers :
        promises[r].status = "none" => P(WaitForComponent(Now, e, d, r))
    /\ \A r \in Resolvers : promises[r].status # "none" => P(CancelWait(Now, r))
    /\ \A e \in WaiterEntities, d \in WaiterDefs, skip \in BOOLEAN, kord \in KeyOrders :
        P(OnAttach(e, d, skip, kord))
    /\ \A e \in WaiterEntities, d \in WaiterDefs : P(OnDetach(e, d))
    /\ \A e \in WaiterEntities, t \in RegistryTags, ord \in ListenerOrders :
        /\ t \notin tags[e] => P(OnAddTag(e, t, ord))
        /\ t \in tags[e] => P(OnRemoveTag(e, t, ord))
    /\ \A e \in WaiterEntities, b \in BOOLEAN :
        /\ (b => ~shape[e]) => P(OnDescendantAdded(e, b))
        /\ (b => shape[e]) => P(OnDescendantRemoving(e, b))
    /\ \A d \in Defs, e \in WaiterEntities, ord \in ListenerOrders :
        HasDeferred(d, e) => P(OnDeferred(d, e, ord))
    /\ \A e \in WaiterEntities, v \in {Nil, "3"} : P(SetAttribute(Now, e, "power", v))

\* how often the handler run s invoked the resolver r
Resolutions(s, r) == Cardinality({i \in DOMAIN s.resolved : s.resolved[i][1] = r})

\* a promise that is pending before the run is resolved by it, once and with the
\* attached instance, exactly if the run attaches its component to its entity
PendingUntilAttach(s) ==
    \A r \in Resolvers :
        promises[r].status = "pending" =>
            IF AttachedIn(s, promises[r].e, promises[r].d)
            THEN /\ s.promises[r].status = "resolved"
                 /\ s.promises[r].value = s.activeComponents[promises[r].e][promises[r].d]
                 /\ Resolutions(s, r) = 1
            ELSE /\ s.promises[r].status \in {"pending", "cancelled"}
                 /\ Resolutions(s, r) = 0

\* a promise that is resolved before the run is left as it is
ResolvedForGood(s) ==
    \A r \in Resolvers :
        promises[r].status = "resolved" =>
            s.promises[r] = promises[r] /\ Resolutions(s, r) = 0

\* waitFor(e, d), with d neither attached to e nor eagerly creatable, returns a
\* pending promise
IssuedPending ==
    \A e \in WaiterEntities, d \in WaiterDefs, r \in Resolvers :
        (promises[r].status = "none" /\ ~Attached(e, d)
            /\ ~canCreateComponentEager(Now, e, d)) =>
            /\ WaitForComponent(Now, e, d, r).promises[r].status = "pending"
            /\ WaitForComponent(Now, e, d, r).resolved = <<>>

\* C11: a waitFor(E, D) issued while D is neither attached to E nor eagerly
\* creatable stays pending until D is attached to E, is resolved exactly once
\* during that attach, with the attached instance, and no later attach resolves
\* it again
C11_WaiterResolvedByAttach ==
    /\ IssuedPending
    /\ \A r \in Resolvers :
        promises[r].status = "pending" => ~Attached(promises[r].e, promises[r].d)
    /\ EveryWaitersRun(PendingUntilAttach)
    /\ EveryWaitersRun(ResolvedForGood)

----------------------------------------------------------------------------
(* C12 *)

\* the resolvers that componentWaiters holds
Waiting(waiters) ==
    UNION {UNION {waiters[e][d] : d \in DOMAIN waiters[e]} : e \in DOMAIN waiters}

\* no per-entity waiter map and no waiter set is empty
NoEmptyWaiters(waiters) ==
    \A e \in DOMAIN waiters :
        /\ DOMAIN waiters[e] # {}
        /\ \A d \in DOMAIN waiters[e] : waiters[e][d] # {}

\* the run leaves every cancelled promise cancelled and invokes no resolver of one
CancelledForGood(s) ==
    \A r \in Resolvers :
        promises[r].status = "cancelled" =>
            /\ s.promises[r] = promises[r]
            /\ Resolutions(s, r) = 0
            /\ r \notin Waiting(s.componentWaiters)

\* cancel of a pending promise takes its resolver, and what the removal
\* emptied, out of componentWaiters
CancelRemoves ==
    \A r \in Resolvers :
        promises[r].status = "pending" =>
            /\ CancelWait(Now, r).promises[r].status = "cancelled"
            /\ r \notin Waiting(CancelWait(Now, r).componentWaiters)
            /\ NoEmptyWaiters(CancelWait(Now, r).componentWaiters)
            /\ Waiting(CancelWait(Now, r).componentWaiters) = Waiting(componentWaiters) \ {r}

\* C12: once a pending waitFor(E, D) is cancelled, no later attach invokes its
\* resolver and componentWaiters holds no entry for it; componentWaiters never
\* holds an empty waiter set or an empty per-entity waiter map
C12_CancelForgetsWaiter ==
    /\ CancelRemoves
    /\ NoEmptyWaiters(componentWaiters)
    /\ \A r \in Resolvers :
        promises[r].status = "cancelled" => r \notin Waiting(componentWaiters)
    /\ EveryWaitersRun(CancelledForGood)

\* p1 waited for Base and was cancelled, and the attach of Base that followed
\* resolved p2 alone
C12_Witness ==
    /\ promises["p1"].status = "cancelled"
    /\ promises["p2"].status = "resolved"
    /\ promises["p1"].e = promises["p2"].e
    /\ promises["p1"].d = promises["p2"].d
    /\ promises["p1"].d = "Base"
    /\ Attached(promises["p1"].e, promises["p1"].d)
    /\ activeComponents[promises["p2"].e][promises["p2"].d] = promises["p2"].value
    /\ componentWaiters = EmptyMap

----------------------------------------------------------------------------
(* C13 *)

\* e is about to gain the marker "enemy": it has no ammo attribute and neither
\* Health nor Turret is attached to it
GainsEnemy(e) ==
    /\ "enemy" \notin tags[e]
    /\ attrs[e]["ammo"] = Nil
    /\ ~Attached(e, "Health")
    /\ ~Attached(e, "Turret")

\* Turret's tracker reports e unqualified, for want of Health alone
AwaitsHealth(s, e) ==
    /\ Has(s.instances["Turret"], e)
    /\ ~s.instances["Turret"][e].isQualified
    /\ s.instances["Turret"][e].unmetCriteria = {"Health"}

\* a run that attaches Health to an entity on which the registry's Turret listener
\* waits for Health alone attaches Turret to it as well
HealthBringsTurret(s) ==
    \A e \in TrackerEntities :
        (/\ AwaitsHealth(Now, e)
         /\ <<"reg", "Turret">> \in instances["Turret"][e].listeners
         /\ ~Attached(e, "Health")
         /\ AttachedIn(s, e, "Health"))
            => AttachedIn(s, e, "Turret")

\* C13: when an entity with no ammo attribute and no Health attached gains the
\* marker "enemy", Turret's tracker reports it unqualified with Health its only
\* unmet criterion and the default ammo 0 is written to the entity; once Health is
\* attached to the entity, Turret is attached to it automatically
C13_TurretScenario ==
    /\ \A e \in TrackerEntities, ord \in ListenerOrders :
        GainsEnemy(e) =>
            /\ AwaitsHealth(OnAddTag(e, "enemy", ord), e)
            /\ OnAddTag(e, "enemy", ord).attrs[e]["ammo"] = "0"
    /\ EveryTrackerRun(HealthBringsTurret)

----------------------------------------------------------------------------
(* C14 *)

\* the handler has changed nothing the registry or a tracker keeps
NothingChanged(s) ==
    /\ SameIndices(s)
    /\ s.instances = instances
    /\ s.comps = comps
    /\ s.attrs = attrs
    /\ s.componentWaiters = componentWaiters
    /\ s.promises = promises

\* the get has attached d to e and returned the instance
AttachedAndReturned(s, e, d) ==
    /\ s.err = NoErr
    /\ AttachedIn(s, e, d)
    /\ s.ret = s.activeComponents[e][d]

AbsentAndUnchanged(s) == s.err = NoErr /\ s.ret = Absent /\ NothingChanged(s)

\* the eager attach went through, or ended with the error of the dependency
\* resolution; the instance guard was not consulted
EagerOutcome(s, e, d) ==
    \/ AttachedAndReturned(s, e, d)
    \/ s.err = "UnresolvedDependency"

----------------------------------------------------------------------------
(* C15 *)

\* the invocations of listener l for (d, e) that the run s has made
InvocationsOf(s, d, e, l) ==
    {i \in DOMAIN s.calls :
        /\ s.calls[i].kind \in {"track", "update"}
        /\ s.calls[i].d = d /\ s.calls[i].e = e /\ s.calls[i].l = l}

\* what the tracker of d makes of e now: the cached flag of a tracked entity, the
\* evaluation of every criterion for an untracked one
RECURSIVE Qualification(_, _)
Qualification(d, e) ==
    IF Has(instances[d], e) THEN instances[d][e].isQualified
    ELSE /\ \A i \in 1 .. Len(componentDependencies(d)) :
                Qualification(componentDependencies(d)[i], e)
         /\ HasInstanceGuard(d) => shape[e]
         /\ Tag(d) # Nil => Tag(d) \in tags[e]

\* s is trackInstance(e, l) of d's tracker, returned: l was called once, by
\* trackInstance itself, with the qualification of e, which the call leaves as the
\* tracker's flag
InvokedOnceOnTrack(s, d, e, l) ==
    /\ Cardinality(InvocationsOf(s, d, e, l)) = 1
    /\ \A i \in InvocationsOf(s, d, e, l) :
        /\ s.calls[i].kind = "track"
        /\ s.calls[i].value = Qualification(d, e)
        /\ s.calls[i].value = s.instances[d][e].isQualified
    /\ l \in s.instances[d][e].listeners

\* C15: every call track(E, L) invokes L exactly once before it returns, with the
\* tracker's qualification of E, whether E was untracked before the call (L is
\* invoked after the evaluation and the setup) or tracked already
C15_TrackInvokesListenerOnce ==
    \A d \in Defs, e \in TrackerEntities :
        \A l \in {<<"usr", d>>, <<"reg", d>>} :
            InvokedOnceOnTrack(TrackInstance(Now, d, e, l), d, e, l)

\* Base's tracker holds the entity qualified and a caller's track is answered with
\* true, while a first track of the untracked entity by Turret's tracker is
\* answered with false
C15_Witness ==
    \E e \in TrackerEntities :
        /\ Has(instances["Base"], e)
        /\ instances["Base"][e].isQualified
        /\ \E i \in DOMAIN OnTrack("Base", e).calls :
            /\ OnTrack("Base", e).calls[i].kind = "track"
            /\ OnTrack("Base", e).calls[i].l = <<"usr", "Base">>
            /\ OnTrack("Base", e).calls[i].value
        /\ ~Has(instances["Turret"], e)
        /\ \E i \in DOMAIN OnTrack("Turret", e).calls :
            /\ OnTrack("Turret", e).calls[i].kind = "track"
            /\ OnTrack("Turret", e).calls[i].l = <<"usr", "Turret">>
            /\ ~OnTrack("Turret", e).calls[i].value

----------------------------------------------------------------------------
(* C16 *)

\* the call that ended in s wrote nothing but its result
OnlyReturned(s) == [s EXCEPT !.ret = Now.ret] = Now

----------------------------------------------------------------------------
(* C17 *)

\* C17: when untrack removes the last listener of a tracked (D, E) while the
\* warning thread is pending, the thread is cancelled: it is not pending for an
\* InstanceTracker that has been untracked, and no warning is printed for one
C17_UntrackCancelsWarning ==
    \A o \in orphans :
        /\ o.t.timer # "armed"
        /\ OnWarningOrphan(o).warns = {}

----------------------------------------------------------------------------
(* C18 *)

\* C18: once the last listener of a tracked (D, E) is untracked, no
\* DescendantAdded or DescendantRemoving connection of that InstanceTracker is
\* live, and none is made later, also not by a task that was deferred before the
\* untrack and runs after it
C18_UntrackEndsSubscriptions ==
    \A o \in orphans :
        /\ o.t.conn = {}
        /\ o.t.task # "none" => DeferredOrphan(Now, o.t, o.e).conn = {}

----------------------------------------------------------------------------
(* C19 *)

\* in s no class bound to tag t is attached to e, and the registry's listener of
\* none is registered with e's InstanceTracker
RemovedFor(s, e, t) ==
    \A d \in Defs :
        Tag(d) = t =>
            /\ ~AttachedIn(s, e, d)
            /\ Has(s.instances[d], e) => <<"reg", d>> \notin s.instances[d][e].listeners

\* C19: once the removed signal of D's tag has been handled for E, D is not
\* attached to E and the registry's listener for D is not registered on E's tracked
\* state, whatever the qualification of E was when the signal fired
C19_RemovedSignalDetaches ==
    \A e \in TrackerEntities, t \in TagNames, ord \in ListenerOrders :
        t \in tags[e] => RemovedFor(OnRemoveTag(e, t, ord), e, t)

\* Health is attached to a qualified entity that Turret's tracker tracks as well;
\* the removal of "living" detaches Health and leaves Health's tracker tracking
\* the entity for Turret alone
C19_Witness ==
    \E e \in TrackerEntities, ord \in ListenerOrders :
        /\ "living" \in tags[e]
        /\ Attached(e, "Health")
        /\ Has(instances["Health"], e)
        /\ instances["Health"][e].isQualified
        /\ <<"reg", "Health">> \in instances["Health"][e].listeners
        /\ Has(OnRemoveTag(e, "living", ord).instances["Health"], e)
        /\ RemovedFor(OnRemoveTag(e, "living", ord), e, "living")

----------------------------------------------------------------------------
(* C20 *)

\* in s every tag-bound class is attached to exactly the entities that its tracker
\* holds qualified, among those the registry's listener is registered for
AutoSync(s) ==
    \A e \in TrackerEntities, d \in Defs :
        (/\ Tag(d) # Nil
         /\ Has(s.instances[d], e)
         /\ <<"reg", d>> \in s.instances[d][e].listeners)
            => (AttachedIn(s, e, d) <=> s.instances[d][e].isQualified)

\* a handler that raises no error keeps the attachments in step with the trackers
KeepsAutoSync(s) == (AutoSync(Now) /\ s.err = NoErr /\ s.caught = {}) => AutoSync(s)

\* C20: with no manual attach or detach of a tag-bound class, and as long as no
\* attach raises an error, after every event each tag-bound D is attached to an
\* entity E for which the registry's listener is registered if and only if D's
\* tracker holds E qualified
C20_AttachedIffQualified ==
    /\ EveryTrackerRun(KeepsAutoSync)
    /\ activeComponents = EmptyMap => AutoSync(Now)

\* Health and Turret are attached, constructed, to an entity that their trackers
\* hold qualified for the registry's listeners
C20_Witness ==
    \E e \in TrackerEntities :
        /\ AutoSync(Now)
        /\ Has(instances["Health"], e) /\ Has(instances["Turret"], e)
        /\ <<"reg", "Health">> \in instances["Health"][e].listeners
        /\ <<"reg", "Turret">> \in instances["Turret"][e].listeners
        /\ instances["Health"][e].isQualified
        /\ instances["Turret"][e].isQualified
        /\ Attached(e, "Health") /\ Attached(e, "Turret")
        /\ comps[activeComponents[e]["Health"]].constructed = 1
        /\ comps[activeComponents[e]["Turret"]].constructed = 1

----------------------------------------------------------------------------
(* C21 *)

\* every getComponent of a constructor body for its own component returned the
\* instance whose construction was running
ReentrantGetsInstance(s) ==
    \A i \in DOMAIN s.lookups :
        /\ s.lookups[i].ret = s.lookups[i].component
        /\ s.lookups[i].constructed = 0

\* the run allocated at most one instance per entity and class, hence no more
\* instances than there are classes
AllocatesOnce(s) ==
    /\ \A i, j \in DOMAIN s.allocated :
        (s.allocated[i][1] = s.allocated[j][1] /\ s.allocated[i][2] = s.allocated[j][2])
            => i = j
    /\ Len(s.allocated) <= Cardinality(Defs)

ReentrantAttach(s) == ReentrantGetsInstance(s) /\ AllocatesOnce(s)

\* C21: a get(E, D) issued while the constructor body of D runs for E returns the
\* instance under construction; an attachment allocates no second instance of D
\* for E, and the nesting of attaches and lookups is bounded
C21_ReentrantGetReturnsInstance == EveryRegistryRun(ReentrantAttach)

\* Base is not attached, and the attach constructs an instance whose constructor
\* body looked the instance up
C21_Witness ==
    \E e \in RegistryEntities, kord \in KeyOrders :
        /\ ~Attached(e, "Base")
        /\ OnAttach(e, "Base", TRUE, kord).err = NoErr
        /\ OnAttach(e, "Base", TRUE, kord).lookups # <<>>
        /\ OnAttach(e, "Base", TRUE, kord).allocated =
               <<OnAttach(e, "Base", TRUE, kord).ret>>
        /\ ReentrantGetsInstance(OnAttach(e, "Base", TRUE, kord))

----------------------------------------------------------------------------
(* C22 *)

\* s is an attach of d to e, issued while the promise r waited for it, in which
\* onStart failed: the attach has returned the instance, which is filed in the
\* three indices, watches its attributes and was handed to the waiter
StartedDespiteFailure(s, e, d, r) ==
    (s.err = NoErr /\ <<"onStart", d, e>> \in s.warns) =>
        /\ AttachedIn(s, e, d)
        /\ s.ret = s.activeComponents[e][d]
        /\ s.comps[s.ret].constructed = 1
        /\ \A id \in IdentifiersOf(d) :
            /\ s.ret \in GetComponents(s, e, id)
            /\ s.ret \in GetAllComponents(s, id)
        /\ s.comps[s.ret].watching
        /\ s.promises[r].status = "resolved"
        /\ s.promises[r].value = s.ret
        /\ Resolutions(s, r) = 1
        /\ ~(Has(s.componentWaiters, e) /\ Has(s.componentWaiters[e], d))

\* C22: when onStart of a new instance fails, attach still returns the instance,
\* which stays in activeComponents and under its identifiers in the two other
\* indices; its attribute connections are made and the waiters of (E, D) are
\* resolved with it
C22_StartFailureIsContained ==
    \A e \in RegistryEntities, d \in Defs, skip \in BOOLEAN, kord \in KeyOrders :
        (/\ StartHook(d) = "fails"
         /\ promises["p1"].status = "none"
         /\ WaitForComponent(Now, e, d, "p1").err = NoErr
         /\ WaitForComponent(Now, e, d, "p1").promises["p1"].status = "pending")
            => StartedDespiteFailure(
                   AddComponent([WaitForComponent(Now, e, d, "p1") EXCEPT !.kord = kord],
                                e, d, skip),
                   e, d, "p1")

\* Turret, whose onStart fails, is not attached while a promise waits for it, and
\* the attach goes through and resolves the promise
C22_Witness ==
    \E e \in RegistryEntities :
        /\ ~Attached(e, "Turret")
        /\ WaitForComponent(Now, e, "Turret", "p1").promises["p1"].status = "pending"
        /\ AddComponent(WaitForComponent(Now, e, "Turret", "p1"), e, "Turret", TRUE).err
               = NoErr
        /\ <<"onStart", "Turret", e>> \in
               AddComponent(WaitForComponent(Now, e, "Turret", "p1"), e, "Turret", TRUE).warns
        /\ AddComponent(WaitForComponent(Now, e, "Turret", "p1"), e, "Turret", TRUE)
               .promises["p1"].status = "resolved"

----------------------------------------------------------------------------
(* C23 *)

\* the class d has an instance guard and e does not pass it
GuardFails(e, d) == getConfigValue(d, "instanceGuard") # Nil /\ ~TypeGuard(Now, e)

\* the attach s has made no instance and has left the three indices as they are
NotAttachedBy(s) ==
    /\ s.allocated = <<>>
    /\ s.activeComponents = activeComponents
    /\ s.activeInheritedComponents = activeInheritedComponents
    /\ s.reverseComponentsMapping = reverseComponentsMapping

\* C23 as stated: an attach without skipInstanceCheck to an entity that does not
\* pass the instance guard fails with GuardRejected
C23_GuardFailureIsGuardRejected ==
    \A e \in RegistryEntities, d \in Defs, kord \in KeyOrders :
        GuardFails(e, d) => OnAttach(e, d, FALSE, kord).err = "GuardRejected"

\* C23: an attach without skipInstanceCheck to an entity that does not pass the
\* instance guard fails and attaches nothing, with GuardRejected when the
\* attributes of the entity were accepted and with InvalidAttribute when they
\* were not; an attach with skipInstanceCheck never fails with GuardRejected
C23_GuardCheckedAfterAttributes ==
    \A e \in RegistryEntities, d \in Defs, kord \in KeyOrders :
        /\ GuardFails(e, d) =>
              /\ OnAttach(e, d, FALSE, kord).err =
                     IF GetAttributes(Cur(ListenerOrder, kord), e, d, getAttributeGuards(d)).err = NoErr
                     THEN "GuardRejected" ELSE "InvalidAttribute"
              /\ NotAttachedBy(OnAttach(e, d, FALSE, kord))
        /\ OnAttach(e, d, TRUE, kord).err # "GuardRejected"

\* an entity that fails the instance guard of Base is refused without
\* skipInstanceCheck and gets its instance with it
C23_Witness ==
    \E e \in RegistryEntities, kord \in KeyOrders :
        /\ GuardFails(e, "Base")
        /\ ~Attached(e, "Base")
        /\ OnAttach(e, "Base", FALSE, kord).err = "GuardRejected"
        /\ OnAttach(e, "Base", TRUE, kord).err = NoErr
        /\ AttachedIn(OnAttach(e, "Base", TRUE, kord), e, "Base")

----------------------------------------------------------------------------
(* C24 *)

\* the class d has a default for the attribute key
HasDefault(d, key) ==
    /\ getConfigValue(d, "defaults") # Nil
    /\ Has(ConfigDefaults(getConfigValue(d, "defaults")), key)

\* an attribute of e that d guards fails its guard and has no default
InvalidFor(e, d) ==
    \E key \in getAttributeGuards(d) : ~AttrGuard(attrs[e][key]) /\ ~HasDefault(d, key)

\* what an attach of d to e is to keep for the attribute key: the value of the
\* entity when it passes the guard, the default otherwise
Normalized(e, d, key) ==
    IF AttrGuard(attrs[e][key]) THEN attrs[e][key]
    ELSE ConfigDefaults(getConfigValue(d, "defaults"))[key]

\* s is an attach of d to e
AttributesNormalized(s, e, d) ==
    IF InvalidFor(e, d)
    THEN s.err = "InvalidAttribute" /\ NotAttachedBy(s)
    ELSE /\ s.err # "InvalidAttribute"
         /\ \A key \in getAttributeGuards(d) : s.attrs[e][key] = Normalized(e, d, key)
         /\ (s.err = NoErr /\ ~Attached(e, d)) =>
                /\ DOMAIN s.comps[s.ret].attributes = getAttributeGuards(d)
                /\ \A key \in getAttributeGuards(d) :
                       s.comps[s.ret].attributes[key] = Normalized(e, d, key)

\* C24: an attach keeps, for each guarded attribute, the value of the entity when
\* it passes the guard and the default otherwise, the default also being written
\* to the entity; when a value fails the guard and there is no default the attach
\* fails with InvalidAttribute and no instance is made
C24_AttributesNormalizedOnAttach ==
    \A e \in RegistryEntities, d \in Defs, skip \in BOOLEAN, kord \in KeyOrders :
        AttributesNormalized(OnAttach(e, d, skip, kord), e, d)

\* Base is attached to an entity whose ammo fails the guard and whose power
\* passes it: the instance keeps the default for one and the value for the other
C24_Witness ==
    \E e \in RegistryEntities, kord \in KeyOrders :
        /\ ~Attached(e, "Base")
        /\ ~AttrGuard(attrs[e]["ammo"])
        /\ AttrGuard(attrs[e]["power"])
        /\ OnAttach(e, "Base", TRUE, kord).err = NoErr
        /\ OnAttach(e, "Base", TRUE, kord).attrs[e]["ammo"] = "0"
        /\ OnAttach(e, "Base", TRUE, kord).comps[OnAttach(e, "Base", TRUE, kord).ret]
               .attributes = [ammo |-> "0", power |-> attrs[e]["power"]]

----------------------------------------------------------------------------
(* C25 *)

\* the class d refreshes the attributes of its instances
RefreshesAttributes(d) ==
    \/ getConfigValue(d, "refreshAttributes") = Nil
    \/ ConfigRefreshAttributes(getConfigValue(d, "refreshAttributes")) = "true"

\* the instances attached to e whose class refreshes the attribute key
Refreshing(e, key) ==
    {c \in DOMAIN comps :
        /\ Attached(e, comps[c].d)
        /\ activeComponents[e][comps[c].d] = c
        /\ RefreshesAttributes(comps[c].d)
        /\ key \in getAttributeGuards(comps[c].d)}

\* the times the handlers of the instance c were fired in s
FiredFor(s, c) == SelectSeq(s.fired, LAMBDA f : f[1] = c)

\* s is the change of the attribute key of e to v
ChangeRefreshes(s, e, key, v) ==
    /\ \A c \in Refreshing(e, key) :
          IF AttrGuard(v)
          THEN /\ s.comps[c].attributes[key] = v
               /\ FiredFor(s, c) = <<(<<c, key, v, comps[c].attributes[key]>>)>>
          ELSE /\ s.comps[c].attributes = comps[c].attributes
               /\ FiredFor(s, c) = <<>>
    /\ \A c \in DOMAIN comps \ Refreshing(e, key) :
          /\ s.comps[c].attributes = comps[c].attributes
          /\ FiredFor(s, c) = <<>>

\* every attribute an instance keeps passes its guard
CacheValid(s) ==
    \A c \in DOMAIN s.comps : \A key \in DOMAIN s.comps[c].attributes :
        AttrGuard(s.comps[c].attributes[key])

\* C25: for an attached instance of a class that refreshes its attributes, a
\* change to a value that passes the guard is kept by the instance and fires its
\* handlers once with the new and the previous value; a change to a value that
\* fails the guard fires nothing and leaves the instance as it is; every value
\* an instance keeps passes its guard
C25_AttributeChangeRefreshes ==
    /\ CacheValid(Now)
    /\ \A e \in AttributeEntities, key \in AttrNames, v \in AttrValues :
          v # attrs[e][key] => ChangeRefreshes(SetAttribute(Now, e, key, v), e, key, v)

----------------------------------------------------------------------------
(* C26 *)

\* the listeners a tracker can be given: those of callers, of dependent trackers
\* and of the registry
AllListeners == {<<k, d>> : k \in {"usr", "dep", "reg"}, d \in Defs}

\* untrackInstance of a listener that is not registered changes nothing, and a
\* second untrackInstance of any listener changes nothing more
UntrackIdempotent ==
    \A d \in Defs, e \in WaiterEntities, l \in AllListeners :
        /\ (~Has(instances[d], e) \/ l \notin instances[d][e].listeners)
              => UntrackInstance(Now, d, e, l) = Now
        /\ UntrackInstance(UntrackInstance(Now, d, e, l), d, e, l)
              = UntrackInstance(Now, d, e, l)

\* cancelling a promise that is resolved or cancelled changes nothing, and a
\* second cancellation of any promise changes nothing more
CancelIdempotent ==
    \A r \in Resolvers :
        /\ promises[r].status \in {"resolved", "cancelled"} => CancelWait(Now, r) = Now
        /\ CancelWait(CancelWait(Now, r), r) = CancelWait(Now, r)

\* C26: untrackInstance of a listener that is not, or no longer, registered and
\* the cancellation of a promise of waitForComponent that is already resolved or
\* cancelled change no state of the trackers or of the registry; doing either
\* twice is the same as doing it once
C26_UntrackAndCancelIdempotent == UntrackIdempotent /\ CancelIdempotent

\* an entity is tracked for the registry alone while one promise is resolved and
\* another is cancelled; a caller's listener is dropped and both are cancelled
C26_Witness ==
    \E e \in WaiterEntities, d \in Defs :
        /\ Has(instances[d], e)
        /\ instances[d][e].listeners = {<<"reg", d>>}
        /\ UntrackInstance(Now, d, e, <<"usr", d>>) = Now
        /\ UntrackInstance(Now, d, e, <<"reg", d>>) # Now
        /\ promises["p1"].status = "resolved"
        /\ promises["p2"].status = "cancelled"
        /\ CancelWait(CancelWait(Now, "p1"), "p2") = Now

----------------------------------------------------------------------------
(* C27 *)

\* the warning thread of the tracked (d, e) is pending
WarningPending(d, e) == Has(instances[d], e) /\ instances[d][e].timer = "armed"

\* C27: the warning thread of a tracked (D, E) is pending only for a class whose
\* warningTimeout is not 0 and only while E is unqualified: it is cancelled as
\* soon as E becomes qualified, so that no warning is printed for an entity that
\* has been qualified since it was tracked
C27_WarningOnlyWhileUnqualified ==
    \A d \in Defs, e \in TrackerEntities :
        WarningPending(d, e) =>
            /\ WarningTimeout(d) # 0
            /\ ~instances[d][e].isQualified

----------------------------------------------------------------------------
(* C28 *)

\* the predicate and the ancestor lists of d let the tagged e through
Admitted(d, e) ==
    /\ Predicate(d, e)
    /\ IF AncestorWhitelist(d) # {} THEN place[e] \in AncestorWhitelist(d)
       ELSE place[e] \notin AncestorBlacklist(d)

\* what a run has left of the entity e
Outcome(s, e) ==
    [trackers |-> [d \in Defs |-> IF Has(s.instances[d], e) THEN s.instances[d][e] ELSE Nil],
     active |-> IF Has(s.activeComponents, e) THEN s.activeComponents[e] ELSE EmptyMap,
     inherited |-> IF Has(s.activeInheritedComponents, e)
                   THEN s.activeInheritedComponents[e] ELSE EmptyMap,
     comps |-> [c \in {x \in DOMAIN s.comps : x[1] = e} |-> s.comps[c]],
     attrs |-> s.attrs[e],
     warns |-> {w \in s.warns : w[3] = e}]

\* no instanceAdded of the entity e has raised an error in s
StartedCleanly(s, e) == \A d \in Defs : <<"instantiate", d, e>> \notin s.warns

\* s is onStart and alone is onStart with GetTagged listing the entity e alone
StartedApart(s, alone, e) ==
    /\ Outcome(s, e) = Outcome(alone, e)
    /\ \A d \in Defs :
          /\ (Tag(d) # Nil /\ Tag(d) \in tags[e] /\ Admitted(d, e))
                => /\ Has(s.instances[d], e)
                   /\ <<"reg", d>> \in s.instances[d][e].listeners
          /\ (/\ StartedCleanly(s, e)
              /\ Tag(d) # Nil
              /\ Has(s.instances[d], e)
              /\ <<"reg", d>> \in s.instances[d][e].listeners
              /\ s.instances[d][e].isQualified)
                => /\ AttachedIn(s, e, d)
                   /\ s.comps[s.activeComponents[e][d]].constructed = 1

\* C28: in the loop of onStart over the tagged instances, an error raised for one
\* instance leaves the others as they would be without it: each instance that
\* carries the tag and is let through is tracked, and has its component attached
\* when it is qualified
C28_StartLoopIsolatesErrors ==
    ~started =>
        \A ds \in ClassOrders, es \in EntityOrders, ord \in ListenerOrders,
           kord \in KeyOrders, e \in StartEntities :
            StartedApart(OnStart(ds, es, ord, kord), OnStart(ds, <<e>>, ord, kord), e)

\* before onStart both entities are tagged for Health and only the second has its
\* Base: onStart prints the error of the first and attaches Health to the second
C28_Witness ==
    /\ ~started
    /\ "living" \in tags["e1"] \cap tags["e2"]
    /\ <<"instantiate", "Health", "e1">> \in
           OnStart(<<"Base", "Health", "Turret">>, <<"e1", "e2">>, ListenerOrder, KeyOrder).warns
    /\ StartedCleanly(
           OnStart(<<"Base", "Health", "Turret">>, <<"e1", "e2">>, ListenerOrder, KeyOrder),
           "e2")
    /\ AttachedIn(
           OnStart(<<"Base", "Health", "Turret">>, <<"e1", "e2">>, ListenerOrder, KeyOrder),
           "e2", "Health")

----------------------------------------------------------------------------
(* C29 *)

\* the predicate and the ancestor lists of d let e through where the run s has it
AdmittedIn(s, d, e) ==
    /\ Predicate(d, e)
    /\ IF AncestorWhitelist(d) # {} THEN s.place[e] \in AncestorWhitelist(d)
       ELSE s.place[e] \notin AncestorBlacklist(d)

\* every instance of a class with a tag that s has made is on an entity that the
\* predicate and the ancestor lists of the class let through
NoneBarred(s) ==
    \A i \in DOMAIN s.allocated :
        Tag(s.allocated[i][2]) # Nil
            => AdmittedIn(s, s.allocated[i][2], s.allocated[i][1])

\* the handler of the instance-added signal makes no instance on a barred entity
SignalBars ==
    \A e \in EagerEntities :
        /\ \A tg \in RegistryTags, ord \in ListenerOrders :
              tg \notin tags[e] => NoneBarred(OnAddTag(e, tg, ord))
        /\ \A p \in Places, ord \in ListenerOrders, tord \in TagOrders :
              p # place[e] => NoneBarred(OnReparent(e, p, ord, tord))

\* getComponent makes no instance on a barred entity
LookupBars == \A e \in EagerEntities, d \in Defs : NoneBarred(OnGet(e, d))

\* C29: no instance of a class with a tag is made through the tag, by the handler
\* of the instance-added signal or by getComponent, on an entity for which the
\* predicate is false, which is outside the ancestorWhitelist, or which is under
\* an ancestor of the ancestorBlacklist when there is no whitelist
C29_BarredNeverConstructed == SignalBars /\ LookupBars

----------------------------------------------------------------------------
(* C30 *)

\* the connections of the tracked (d, e) match its type guard marker
ConnectionMatchesMarker(tracker) ==
    /\ Cardinality(tracker.conn) <= 1
    /\ tracker.task = "none" =>
          /\ "added" \in tracker.conn <=> TypeGuardMarker \in tracker.unmetCriteria
          /\ "removing" \in tracker.conn <=> TypeGuardMarker \notin tracker.unmetCriteria

\* C30: for a tracked (D, E) whose instance guard is polled, at most one of the
\* DescendantAdded and DescendantRemoving connections is live at any time, and
\* while no deferred re-evaluation is pending the DescendantAdded connection is
\* the live one exactly when "type guard" is among the unmet criteria and the
\* DescendantRemoving connection exactly when it is not
C30_OneConnectionMatchingMarker ==
    \A d \in Defs, e \in TrackerEntities :
        (Has(instances[d], e) /\ Polls(d, e)) => ConnectionMatchesMarker(instances[d][e])

\* a tracked entity has lost the descendant its guard needs and the re-evaluation
\* is pending: once it runs the DescendantAdded connection is the live one
C30_Witness ==
    \E d \in Defs, e \in TrackerEntities, ord \in ListenerOrders :
        /\ Has(instances[d], e)
        /\ Polls(d, e)
        /\ instances[d][e].conn = {"removing"}
        /\ instances[d][e].task = "removing"
        /\ ~shape[e]
        /\ Has(OnDeferred(d, e, ord).instances[d], e)
        /\ OnDeferred(d, e, ord).instances[d][e].conn = {"added"}
        /\ TypeGuardMarker \in OnDeferred(d, e, ord).instances[d][e].unmetCriteria

----------------------------------------------------------------------------
(* C31 *)

\* how long a burst of DescendantAdded or DescendantRemoving signals can be
MaxBurst == 3

RECURSIVE Burst(_, _, _, _)
\* n signals of one kind fire for the entity e before the scheduler runs
Burst(s, e, kind, n) ==
    IF n = 0 THEN s ELSE Burst(FireDescendant(s, e, kind), e, kind, n - 1)

\* the tasks the run s has deferred for the tracked (d, e)
DeferredFor(s, d, e) == SelectSeq(s.scheduled, LAMBDA x : x = <<d, e>>)

\* s is a burst of signals of the given kind for e: each tracker with that
\* connection live and no task pending has deferred one task, the others none
OneTaskPerBurst(s, e, kind) ==
    \A d \in Defs :
        Has(instances[d], e) =>
            /\ Len(DeferredFor(s, d, e)) =
                  IF kind \in instances[d][e].conn /\ instances[d][e].task = "none"
                  THEN 1 ELSE 0
            /\ s.instances[d][e].task =
                  IF kind \in instances[d][e].conn /\ instances[d][e].task = "none"
                  THEN kind ELSE instances[d][e].task

\* once the pending task of (d, e) has run none is pending, and the next signal
\* of a live connection defers a new one
RunThenSchedules(s, d, e) ==
    Has(s.instances[d], e) =>
        /\ s.instances[d][e].task = "none"
        /\ \A kind \in s.instances[d][e].conn :
              Len(DeferredFor(FireDescendant(s, e, kind), d, e)) = 1

\* C31: however many DescendantAdded or DescendantRemoving signals reach a live
\* connection before the scheduler runs, one task is deferred; a further signal
\* defers a new task only once the pending one has run
C31_BurstDefersOneTask ==
    /\ \A e \in TrackerEntities, kind \in {"added", "removing"}, n \in 1..MaxBurst :
          OneTaskPerBurst(Burst(Now, e, kind, n), e, kind)
    /\ \A d \in Defs, e \in TrackerEntities, ord \in ListenerOrders :
          HasDeferred(d, e) => RunThenSchedules(OnDeferred(d, e, ord), d, e)

\* a tracker with the DescendantAdded connection live and no task pending gets a
\* burst of signals and defers one task
C31_Witness ==
    \E d \in Defs, e \in TrackerEntities :
        /\ Has(instances[d], e)
        /\ instances[d][e].conn = {"added"}
        /\ instances[d][e].task = "none"
        /\ Len(DeferredFor(Burst(Now, e, "added", MaxBurst), d, e)) = 1
        /\ Burst(Now, e, "added", MaxBurst).instances[d][e].task = "added"

----------------------------------------------------------------------------
(* C32 *)

\* the trackers the tracker of the class d depends on
DependencyTrackers(d) == {componentDependencies(d)[i] : i \in DOMAIN componentDependencies(d)}

\* C32: between two handlers, for every tracked (D1, E) and every dependency D2
\* of D1, D2 is among the unmet criteria of (D1, E) if and only if the tracker
\* of D2 holds E as unqualified
C32_DependencyMarkerMatches ==
    \A d1 \in Defs, e \in TrackerEntities :
        Has(instances[d1], e) =>
            \A d2 \in DependencyTrackers(d1) :
                /\ Has(instances[d2], e)
                /\ d2 \in instances[d1][e].unmetCriteria <=> ~instances[d2][e].isQualified

----------------------------------------------------------------------------
(* C33 *)

\* s is setHasTag(e, hasTag) on the tracker of d
TagMarkerSet(s, d, e, hasTag) ==
    IF ~Has(instances[d], e)
    THEN s = Now
    ELSE /\ Has(s.instances[d], e)
         /\ TagMarker \in s.instances[d][e].unmetCriteria <=> ~hasTag
         /\ s.instances[d][e].unmetCriteria \ {TagMarker}
               = instances[d][e].unmetCriteria \ {TagMarker}
         /\ s.instances[d][e].isQualified = (s.instances[d][e].unmetCriteria = {})
         /\ s.instances[d][e].listeners = instances[d][e].listeners
         /\ \A d2 \in Defs : Has(s.instances[d2], e) <=> Has(instances[d2], e)

\* C33: setHasTag(E, hasTag) on a tracked E leaves "CollectionService tag" among
\* the unmet criteria if and only if hasTag is false, changes no other criterion
\* and brings isQualified up to date; on an entity that is not tracked it changes
\* nothing and makes no InstanceTracker
C33_SetHasTagSetsTagMarkerOnly ==
    \A d \in Defs, e \in TrackerEntities, hasTag \in BOOLEAN :
        TagMarkerSet(SetHasTag(Now, d, e, hasTag), d, e, hasTag)

\* a tracked entity fails the instance guard: setHasTag(false) adds the tag
\* criterion and leaves the other, setHasTag(true) takes it away again; the
\* tracker of another class, which does not track the entity, is left alone
C33_Witness ==
    \E d, d2 \in Defs, e \in TrackerEntities :
        /\ Has(instances[d], e)
        /\ instances[d][e].unmetCriteria = {TypeGuardMarker}
        /\ SetHasTag(Now, d, e, FALSE).instances[d][e].unmetCriteria
               = {TagMarker, TypeGuardMarker}
        /\ SetHasTag(SetHasTag(Now, d, e, FALSE), d, e, TRUE).instances[d][e].unmetCriteria
               = {TypeGuardMarker}
        /\ ~Has(instances[d2], e)
        /\ SetHasTag(Now, d2, e, FALSE) = Now

----------------------------------------------------------------------------
(* C34 *)

\* the type guard marker of the tracked (d, e) in s tells what the type guard
\* makes of the entity now
MarkerMatchesGuard(s, d, e) ==
    TypeGuardMarker \in s.instances[d][e].unmetCriteria <=> ~TypeGuard(s, e)

\* C34: for a tracked (D, E) whose instance guard is polled, whenever no deferred
\* re-evaluation is pending, "type guard" is among the unmet criteria if and only
\* if the instance guard fails on the entity as it is now
C34_TypeGuardMarkerMatchesGuard ==
    \A d \in Defs, e \in TrackerEntities :
        (Has(instances[d], e) /\ Polls(d, e) /\ instances[d][e].task = "none")
            => MarkerMatchesGuard(Now, d, e)

\* the entity has come to pass the guard while the marker still says it fails and
\* the re-evaluation is pending: once it has run the marker is gone
C34_Witness ==
    \E d \in Defs, e \in TrackerEntities, ord \in ListenerOrders :
        /\ Has(instances[d], e)
        /\ Polls(d, e)
        /\ instances[d][e].task = "added"
        /\ shape[e]
        /\ TypeGuardMarker \in instances[d][e].unmetCriteria
        /\ Has(OnDeferred(d, e, ord).instances[d], e)
        /\ OnDeferred(d, e, ord).instances[d][e].task = "none"
        /\ TypeGuardMarker \notin OnDeferred(d, e, ord).instances[d][e].unmetCriteria

----------------------------------------------------------------------------
(* C35 *)

\* a caller registers the untagging listener for (d, e) and the tag of d is then
\* put on e: the flip to qualified makes that listener take the tag off again,
\* which flips (d, e) back while the first notification is still under way
OnTagWithUntagging(d, e, ord) ==
    SignalTag([TrackInstance(Cur(ord, KeyOrder), d, e, UntaggingListener)
                  EXCEPT !.tags[e] = @ \cup {Tag(d)}],
              BoundTo(Tag(d)), e, TRUE)

\* the invocations of the listener l of (d, e) in the run s
Delivered(s, d, e, l) ==
    SelectSeq(s.calls, LAMBDA c : c.kind # "mark" /\ c.d = d /\ c.e = e /\ c.l = l)

\* no listener that (d, e) still has was last told anything but isQualified
NoStaleListener(s, d, e) ==
    Has(s.instances[d], e) =>
        \A l \in s.instances[d][e].listeners :
            Delivered(s, d, e, l) # <<>> =>
                Delivered(s, d, e, l)[Len(Delivered(s, d, e, l))].value
                    = s.instances[d][e].isQualified

\* the flips of (d, e) in the run s
Flips(s, d, e) ==
    SelectSeq(s.calls, LAMBDA c : c.kind = "mark" /\ c.d = d /\ c.e = e /\ c.flips)

\* C35: when a listener called during a flip of (D, E) causes another flip of
\* the same (D, E), then, once the outermost updateListeners has returned, the
\* value last given to each registered listener is the isQualified the tracker
\* holds for E
C35_ReentrantFlipLeavesNoStaleValue ==
    \A d \in Defs, e \in TrackerEntities, ord \in ListenerOrders :
        (/\ Tag(d) # Nil
         /\ Tag(d) \notin tags[e]
         /\ place[e] # Nil
         /\ OnTagWithUntagging(d, e, ord).err = NoErr
         /\ OnTagWithUntagging(d, e, ord).caught = {}
         /\ Len(Flips(OnTagWithUntagging(d, e, ord), d, e)) >= 2)
            => NoStaleListener(OnTagWithUntagging(d, e, ord), d, e)

----------------------------------------------------------------------------
(* C36 *)

\* some listener or handler of the run s has raised an error
Raised(s) == s.err # NoErr \/ s.caught # {}

\* every flip of the run s has reached each listener registered at the flip, and
\* no tracker that flipped to qualified keeps its warning thread
FlipSurvivesError(s) ==
    \A i \in DOMAIN s.calls :
        (s.calls[i].kind = "mark" /\ s.calls[i].flips) =>
            /\ \A l \in s.calls[i].listeners :
                    \E j \in Responses(s.calls, i) :
                        s.calls[j].l = l /\ s.calls[j].value = s.calls[i].value
            /\ (s.calls[i].value /\ Has(s.instances[s.calls[i].d], s.calls[i].e)
                    /\ s.instances[s.calls[i].d][s.calls[i].e].isQualified)
                  => s.instances[s.calls[i].d][s.calls[i].e].timer # "armed"

ErrorLeavesFlipWhole(s) == Raised(s) => FlipSurvivesError(s)

\* C36: when the qualification of a tracked (D2, E) flips and one of its
\* listeners raises an error, every other listener registered for (D2, E), the
\* dependency listeners of dependent trackers among them, is still told of the
\* flip, and an armed warning thread is still cancelled on a flip to qualified
C36_ListenerErrorIsIsolated == EveryTrackerRun(ErrorLeavesFlipWhole)

----------------------------------------------------------------------------
(* C37 *)

\* the resolvers that componentWaiters holds for the component d of the entity e
WaitersOf(e, d) ==
    IF Has(componentWaiters, e) /\ Has(componentWaiters[e], d)
    THEN componentWaiters[e][d] ELSE {}

\* C37: between operations, whenever activeComponents holds D for E,
\* componentWaiters holds no waiter for (E, D): each waiter registered before D
\* became active has been resolved or cancelled
C37_NoWaiterForActive ==
    \A e \in WaiterEntities, d \in WaiterDefs :
        Attached(e, d) => WaitersOf(e, d) = {}

----------------------------------------------------------------------------
(* C38 *)

\* the tag-bound class d is attached to e through its tag: e carries the tag, the
\* tracker of d holds the registry's listener for e and reports e as qualified
AutoAttached(d, e) ==
    /\ Tag(d) # Nil /\ Tag(d) \in tags[e]
    /\ Has(instances[d], e)
    /\ <<"reg", d>> \in instances[d][e].listeners
    /\ instances[d][e].isQualified
    /\ Attached(e, d)

\* the run s has destroyed the instance of d1 on e, then that of d2, and has left
\* neither attached
DetachedInOrder(s, e, d1, d2) ==
    /\ ~AttachedIn(s, e, d1)
    /\ ~AttachedIn(s, e, d2)
    /\ \E i, j \in DOMAIN s.destroys :
        /\ i < j
        /\ s.destroys[i] = activeComponents[e][d1]
        /\ s.destroys[j] = activeComponents[e][d2]

\* C38: if the tag-bound D1 depends on the tag-bound D2 and both are attached to
\* E through their tags, then, when E loses the tag of D2, D1 is detached from E
\* before D2 is, and after the event neither is attached
C38_DependentDetachedFirst ==
    \A d1 \in Defs, e \in TrackerEntities, ord \in ListenerOrders :
        \A d2 \in DependencyTrackers(d1) :
            (AutoAttached(d1, e) /\ AutoAttached(d2, e) /\ place[e] # Nil) =>
                DetachedInOrder(OnRemoveTag(e, Tag(d2), ord), e, d1, d2)

\* Turret and Health are attached to an entity through their tags and the tag of
\* Health is taken off, which destroys both instances
C38_Witness ==
    \E e \in TrackerEntities :
        /\ AutoAttached("Turret", e) /\ AutoAttached("Health", e) /\ place[e] # Nil
        /\ Len(OnRemoveTag(e, Tag("Health"), ListenerOrder).destroys) = 2
        /\ DetachedInOrder(OnRemoveTag(e, Tag("Health"), ListenerOrder), e, "Turret", "Health")

----------------------------------------------------------------------------
(* C39 *)

\* C39: an addComponent(E, D) that fails with the invalid-attribute error leaves
\* the attributes of every entity as they were: the failed call has written no
\* default of any other guarded attribute to E
C39_FailedAttachWritesNoDefault ==
    \A e \in RegistryEntities, d \in Defs, skip \in BOOLEAN, kord \in KeyOrders :
        OnAttach(e, d, skip, kord).err = "InvalidAttribute" =>
            OnAttach(e, d, skip, kord).attrs = attrs

----------------------------------------------------------------------------
(* C40 *)

\* no lookup made by a cleanup task during the run s has returned the instance
\* that was being torn down
CleanupSeesNoTornDown(s) ==
    \A i \in DOMAIN s.cleanups :
        /\ s.cleanups[i].get # s.cleanups[i].component
        /\ s.cleanups[i].component \notin s.cleanups[i].all
        /\ s.cleanups[i].component \notin s.cleanups[i].every

\* the lookups of the state return no instance that has been torn down
LookupSeesNoTornDown ==
    /\ \A e \in RegistryEntities, d \in Defs :
        Attached(e, d) => comps[activeComponents[e][d]].destroyed = 0
    /\ \A e \in RegistryEntities, id \in Identifiers :
        \A c \in GetComponents(Now, e, id) : comps[c].destroyed = 0
    /\ \A id \in Identifiers :
        \A c \in GetAllComponents(Now, id) : comps[c].destroyed = 0

\* C40: getComponent, getComponents and getAllComponents never return an
\* instance whose teardown has begun, be it between operations or when they are
\* called from a cleanup task that runs during removeComponent
C40_LookupNeverReturnsTornDown ==
    /\ LookupSeesNoTornDown
    /\ EveryRegistryRun(CleanupSeesNoTornDown)

====
